---- MODULE Spec2Model ----
(***************************************************************************)
(* Correlated RPC over RabbitMQ: RPCProducer (src/transport/rabbitmq/      *)
(* producer.py), RPCConsumer (consumer.py) and JSONRPCDispatcher           *)
(* (src/transport/json_rpc/dispatcher.py), with the broker queues between  *)
(* them.  asyncio is modelled at the granularity of its suspension points: *)
(* a coroutine runs atomically from one await to the next.                 *)
(* asyncio.wait_for follows CPython 3.11 (waiter future + call_later).     *)
(***************************************************************************)
EXTENDS Integers, Sequences, FiniteSets, TLC

\* ---------------------------------------------------------------- bounds
MaxCallers == 2      \* tasks that invoke RPCProducer.call concurrently
MaxCalls == 2        \* call() invocations in one behaviour
MaxForeign == 1      \* requests put on the work queue by other publishers
MaxCrashes == 2      \* deaths of the worker process
MaxNameLen == 3      \* characters of a generated class name, "Service" suffix aside
MaxFiles == 3        \* *_service.py files under the services directory
MaxInvocations == 2  \* execute_stream invocations on one service instance
MaxStages == 2       \* stages a service's stage configuration declares
MaxSubsteps == 2     \* largest total_substeps / substep argument
MaxOps == 3          \* stage-tracking calls made on one service instance
MaxEvents == 2       \* stage messages yielded from one service instance
MaxSubMessages == 2  \* progress messages one sub-stream yields
MaxConnections == 2  \* SSEConnection objects ever created
MaxSends == 1        \* send_to_client and broadcast calls
MaxHeartbeats == 1   \* heartbeats one event stream yields
MaxTasks == 2        \* tasks that call one ConnectionManager concurrently
MaxEstablished == 2  \* connections the broker accepts from one manager
MaxChannels == 2     \* channels opened through one manager
MaxUploads == 3      \* upload requests made with one session cookie
MaxProgress == 1     \* progress events the service stream of one upload yields

Callers == 1..MaxCallers

\* ------------------------------------------------------------- vocabulary
NoCorrelationId == 0                 \* message.correlation_id is None / ""
NeverIssued == MaxCalls + 1          \* an id no call() of this producer made
NoReplyTo == "none"                  \* message.reply_to is None
CallbackQueue == "callback_queue"    \* RPCProducer._reply_to_queue_name

\* The one capability registered in the dispatcher, and a name that is not.
RegisteredMethods == {"test.execute"}
Methods == {"test.execute", "unknown.execute"}
\* params on which the capability's execute() returns / raises
Params == {"p_ok", "p_raise"}
\* the calls made: a registered method that succeeds, one that raises, and an
\* unknown method
Calls ==
    {[method |-> "test.execute", params |-> "p_ok"],
     [method |-> "test.execute", params |-> "p_raise"],
     [method |-> "unknown.execute", params |-> "p_ok"]}

\* request bodies: fmt "json" is a JSON-RPC request object, "garbage" is
\* text that is not JSON, "binary" is bytes that are not UTF-8
JsonRequest(method, params, id) ==
    [fmt |-> "json", method |-> method, params |-> params, id |-> id]
GarbageBody == [fmt |-> "garbage", method |-> "", params |-> "", id |-> 0]
BinaryBody == [fmt |-> "binary", method |-> "", params |-> "", id |-> 0]

\* reply bodies as _on_response sees them after json.loads
ResultBody(data) == [kind |-> "result", code |-> 0, data |-> data]
ErrorBody(code, data) == [kind |-> "error", code |-> code, data |-> data]
MalformedBody == [kind |-> "malformed", code |-> 0, data |-> ""]
\* a coroutine object: what calling an async def without await returns
Coroutine == [kind |-> "coroutine", code |-> 0, data |-> ""]

NoRequest == [corr |-> NoCorrelationId, reply_to |-> NoReplyTo, body |-> GarbageBody]
NoCall == [method |-> "", params |-> ""]

VARIABLES
    channel,             \* RPCProducer._channel is set
    consumer_tag,        \* RPCProducer._consumer_tag / _callback_queue are set
    listening,           \* the broker has _on_response registered on the callback queue
    futures,             \* RPCProducer._futures: correlation id -> future
    locked,              \* RPCProducer._lock is held
    waiters,             \* tasks queued on RPCProducer._lock, FIFO
    nextId,              \* number of call() invocations so far (source of fresh ids)
    pc,                  \* position of each caller task inside call()
    corr,                \* correlation_id local of each caller's call()
    req,                 \* method and params of each caller's call()
    timerFired,          \* wait_for's timeout handle of the caller has run
    returned,            \* what the call() that ended last returned or raised
    rpcQueue,            \* the durable work queue
    replyQueue,          \* messages routed to the producer's callback queue
    consuming,           \* RPCConsumer.start_consuming has registered on_message
    inflight,            \* message inside `async with message.process()`, what was sent for
                         \* it, and whether the broker accepted the worker's publishes
    nForeign,            \* foreign requests published so far
    served,              \* the consumer handled the caller's request before its timer fired
    nCrashes,            \* times the worker process has died
    connection,          \* ConnectionManager._connection of the producer's manager
    reconnect_attempts,  \* ConnectionManager._reconnect_attempts
    manager,             \* a ConnectionManager called by concurrent tasks: its fields,
                         \* the connections and channels the broker gave it, and each
                         \* task's position inside the method it called
    service_name,        \* getName() of the service last passed to get_service_method_name
    method_name,         \* what get_service_method_name returned for it
    sys_path_has_src,    \* the src/ directory itself is on sys.path, besides the project root
    scanned,             \* service files discover_services has gone through
    file_path,           \* loop variable of discover_services: the file gone through last
    services,            \* the list discover_services builds and returns
    registry,            \* JSONRPCDispatcher.services once _register_services has run
    stage_definition,    \* BaseService._stage_definition of the shared service instance
    tracker,             \* its _current_stage_id, _current_stage_index,
                         \* _current_substep and _current_total_substeps
    start_time,          \* its _start_time: the invocation that called _start_tracking last
    invocation,          \* each execute_stream invocation on it: position, the stage
                         \* messages it yielded, and the fields as its own calls alone
                         \* would have left them
    stream,              \* one execute_service_stream call: the service streamed, the
                         \* position of its generator, the result and progress of the
                         \* sub-stream being read, and the SSE events yielded so far
    connections,         \* SSEService.connections: client id -> SSEConnection (0: no entry)
    client_mapping,      \* SSEService.client_mapping: secondary id -> primary id
    sse_conn,            \* the SSEConnection objects: id, is_active, queue, and the
                         \* position and output of the event_stream generator
    close_tasks,         \* connections whose close() was scheduled with create_task
    sends,               \* the send_to_client and broadcast calls made, with what
                         \* they returned
    session,             \* the session dict of one user: pending, need_download and
                         \* last_uploaded_file
    upload               \* the upload requests made with that session: the endpoint,
                         \* the position of its handler or event generator, its locals

vars == <<channel, consumer_tag, listening, futures, locked, waiters, nextId,
          pc, corr, req, timerFired, returned,
          rpcQueue, replyQueue, consuming, inflight, nForeign, served,
          nCrashes, connection, reconnect_attempts, manager,
          service_name, method_name,
          sys_path_has_src, scanned, file_path, services, registry,
          stage_definition, tracker, start_time, invocation, stream,
          connections, client_mapping, sse_conn, close_tasks, sends,
          session, upload>>

\* the producer's ConnectionManager
managerVars == <<connection, reconnect_attempts, manager>>

\* ServiceLoader.get_service_method_name
nameVars == <<service_name, method_name>>

\* ServiceLoader.discover_services and the registry built from its result
loaderVars == <<sys_path_has_src, scanned, file_path, services, registry>>

\* one service instance held by the registry and the invocations running on it
trackerVars == <<stage_definition, tracker, start_time, invocation>>

\* progress reporting of the services
\* the SSEService singleton and its connections
sinkVars == <<connections, client_mapping, sse_conn, close_tasks, sends>>

sseVars == <<trackerVars, stream, sinkVars>>

\* the upload endpoints of the web application
webVars == <<session, upload>>

\* the worker's and the web application's in-process state
appVars == <<nameVars, loaderVars, sseVars, webVars>>

\* what the producer's calls and the consumer's message handling leave alone
extVars == <<nCrashes, managerVars, appVars>>

producerVars == <<channel, consumer_tag, listening, futures, locked, waiters, nextId,
                  pc, corr, req, timerFired, returned>>

\* ------------------------------------------------------- asyncio.Future
\* `via` is the correlation id of the reply that set the future
PendingFuture == [state |-> "pending", exc |-> "", via |-> NoCorrelationId]

\* a set_result that overwrites a future that is already done
set_result_overwrite(f, m) ==
    [ok |-> TRUE, fut |-> [state |-> "result", exc |-> "", via |-> m.corr]]

\* Future.set_result: InvalidStateError (ok = FALSE) unless the future is pending
set_result(f, m) ==
    IF f.state = "pending"
    THEN [ok |-> TRUE, fut |-> [state |-> "result", exc |-> "", via |-> m.corr]]
    ELSE [ok |-> FALSE, fut |-> f]

\* Future.set_exception: InvalidStateError (ok = FALSE) unless the future is pending
set_exception(f, e, m) ==
    IF f.state = "pending"
    THEN [ok |-> TRUE, fut |-> [state |-> "exception", exc |-> e, via |-> m.corr]]
    ELSE [ok |-> FALSE, fut |-> f]

\* Future.cancel: no effect on a future that is already done
cancel(f) ==
    IF f.state = "pending"
    THEN [state |-> "cancelled", exc |-> "", via |-> NoCorrelationId]
    ELSE f

\* what `await future` gives the caller of call()
NoOutcome == [type |-> "none", via |-> NoCorrelationId]
TimeoutOutcome == [type |-> "timeout", via |-> NoCorrelationId]
NotConnectedOutcome == [type |-> "not_connected", via |-> NoCorrelationId]
PublishFailedOutcome == [type |-> "publish_failed", via |-> NoCorrelationId]
FutureOutcome(f) ==
    IF f.state = "result" THEN [type |-> "result", via |-> f.via]
    ELSE IF f.state = "exception" THEN [type |-> f.exc, via |-> f.via]
    ELSE TimeoutOutcome

Remove(fs, k) == [x \in DOMAIN fs \ {k} |-> fs[x]]
Put(fs, k, v) == [x \in DOMAIN fs \cup {k} |-> IF x = k THEN v ELSE fs[x]]

\* ---------------------------------------------- stages (service_stages.py)
INITIALIZING == "initializing"
COMPLETE == "complete"

\* Python's None
None == "None"

ServiceStage(id, progress) == [id |-> id, progress |-> progress]

\* stage ids and percentages a stage configuration file may hold
StageIds == {"processing", "uploading"}
StageProgress == {10, 50}
ConfiguredStages == {ServiceStage(id, p): id \in StageIds, p \in StageProgress}

\* a stage id no configuration declares
UnknownStage == "unknown"

RECURSIVE SeqsUpTo(_, _)
SeqsUpTo(S, n) ==
    IF n = 0 THEN {<< >>}
    ELSE LET shorter == SeqsUpTo(S, n - 1)
         IN shorter \union {Append(s, x): s \in {t \in shorter: Len(t) = n - 1}, x \in S}

\* the stage lists a configuration file may declare: ServiceStage.__post_init__
\* rejects nothing here (ids are snake_case, percentages within 0..100), and
\* load_config_from_file takes no file without stages
StageLists == SeqsUpTo(ConfiguredStages, MaxStages) \ {<< >>}

\* stage lists that also use the ids of the two implicit stages and the
\* percentages 0 and 100: ServiceStage.__post_init__ accepts them all
ValidatedStages ==
    {ServiceStage(id, p): id \in StageIds \union {INITIALIZING, COMPLETE},
                          p \in StageProgress \union {0, 100}}
ValidatedLists == SeqsUpTo(ValidatedStages, MaxStages) \ {<< >>}

\* get_default_config: no configuration file for the service nor a default one
DefaultStages == << ServiceStage("processing", 50) >>

\* _stage_definition before get_stage_definition has run
NotLoaded == << ServiceStage(None, -1) >>

\* a full list without the implicit first stage
declared_and_final_stages(service_stages) ==
    service_stages \o << ServiceStage(COMPLETE, 100) >>

\* `base_stages + service_stages + final_stages`
get_all_stages(service_stages) ==
    << ServiceStage(INITIALIZING, 0) >> \o service_stages \o << ServiceStage(COMPLETE, 100) >>

\* position (from 1) of the first stage with this id, 0 when there is none
RECURSIVE first_index(_, _, _)
first_index(stages, stage_id, i) ==
    IF i > Len(stages) THEN 0
    ELSE IF stages[i].id = stage_id THEN i
    ELSE first_index(stages, stage_id, i + 1)

\* get_stage_by_id + get_progress_for_stage: -1 when the id is not found
get_progress_for_stage(service_stages, stage_id) ==
    LET stages == get_all_stages(service_stages)
        i == first_index(stages, stage_id, 1)
    IN IF i = 0 THEN -1 ELSE stages[i].progress

\* the ids get_all_stages lists
StageIdsOf(service_stages) ==
    LET stages == get_all_stages(service_stages)
    IN {stages[i].id: i \in DOMAIN stages}

\* a validation that turns no stage list down
accept_any_sequence(service_stages) == TRUE

\* a validation that looks at the percentages only
validate_progress_only(service_stages) ==
    LET stages == get_all_stages(service_stages)
    IN \A i \in 2..(Len(stages) - 1): stages[i].progress > stages[i - 1].progress

\* percentages rise strictly up to the stage before `complete`, ids are unique
validate_stage_sequence(service_stages) ==
    LET stages == get_all_stages(service_stages)
    IN /\ \A i \in 2..(Len(stages) - 1): stages[i].progress > stages[i - 1].progress
       /\ Cardinality({stages[i].id: i \in DOMAIN stages}) = Len(stages)

\* --------------------------------- BaseService stage tracking (base_service.py)
\* the four instance fields as __init__ sets them
NotStarted ==
    [current_stage_id |-> None, current_stage_index |-> -1,
     current_substep |-> 0, current_total_substeps |-> 0]

Min(a, b) == IF a <= b THEN a ELSE b

\* set_stage: the index is left as it was when no stage has the id
set_stage(t, service_stages, stage_id, total_substeps) ==
    LET i == first_index(get_all_stages(service_stages), stage_id, 1)
    IN [current_stage_id |-> stage_id,
        current_substep |-> 0,
        current_total_substeps |-> total_substeps,
        current_stage_index |-> IF i = 0 THEN t.current_stage_index ELSE i - 1]

\* next_stage: the fields afterwards (unchanged where the method returns False)
next_stage(t, service_stages, total_substeps) ==
    LET stages == get_all_stages(service_stages)
        enter(index) ==
            [current_stage_index |-> index,
             current_stage_id |-> stages[index + 1].id,
             current_substep |-> 0,
             current_total_substeps |-> total_substeps]
    IN IF t.current_stage_index = -1
       THEN IF Len(stages) > 0 THEN enter(0) ELSE t
       ELSE IF t.current_stage_index < Len(stages) - 1
            THEN enter(t.current_stage_index + 1)
            ELSE t

increment_substep(t) ==
    IF t.current_total_substeps > 0
    THEN [t EXCEPT !.current_substep = Min(t.current_substep + 1, t.current_total_substeps)]
    ELSE t

set_substep(t, substep) ==
    IF t.current_total_substeps > 0
    THEN [t EXCEPT !.current_substep = Min(substep, t.current_total_substeps)]
    ELSE t

\* an interpolation that leaves the base progress of the stage out
substep_progress_without_base(base_progress, substep, total, progress_range) ==
    (substep * progress_range) \div total

\* int(base_progress + (substep / total) * progress_range): the sum is never
\* negative, so int() is the floor; the quotient is a float in the source and
\* was compared with this integer form on every value the model draws
substep_progress(base_progress, substep, total, progress_range) ==
    base_progress + ((substep * progress_range) \div total)

get_current_progress(t, service_stages) ==
    IF t.current_stage_id = None THEN 0
    ELSE LET base_progress == get_progress_for_stage(service_stages, t.current_stage_id)
             stages == get_all_stages(service_stages)
             current_index == first_index(stages, t.current_stage_id, 1)
         IN IF /\ t.current_total_substeps > 0 /\ t.current_substep > 0
               /\ current_index # 0 /\ current_index < Len(stages)
            THEN LET next_progress ==
                         get_progress_for_stage(service_stages, stages[current_index + 1].id)
                 IN Min(100, substep_progress(base_progress, t.current_substep,
                                              t.current_total_substeps,
                                              next_progress - base_progress))
            ELSE base_progress

\* create_progress_message, timestamp and ETA aside
create_progress_message(progress, stage, details) ==
    [progress |-> progress, stage |-> stage, status |-> "processing", details |-> details]

get_current_stage_message(t, service_stages) ==
    IF t.current_stage_id = None
    THEN create_progress_message(0, INITIALIZING, << >>)
    ELSE create_progress_message(
             get_current_progress(t, service_stages), t.current_stage_id,
             IF t.current_total_substeps > 0
             THEN << t.current_substep, t.current_total_substeps >>
             ELSE << >>)

\* ------------------------------------ execute_stream on a shared instance
Invocations == 1..MaxInvocations

\* an invocation that has not begun
NoInvocation == [pc |-> "idle", events |-> << >>, ops |-> 0, own |-> NotStarted]

\* ------------------------------------------------- messages and SSE events
\* results a success message may carry: no "result" key, an empty dict, a
\* dict without "download_url", a dict with it
NoResult == "none"
Results == {"empty", "no_url", "url"}
Truthy(result) == result \in {"no_url", "url"}

\* a message dict: the keys it has, and the values of those the code reads
Message(keys, status, progress, stage, result) ==
    [keys |-> keys, status |-> status, progress |-> progress, stage |-> stage,
     result |-> result, stage_failed |-> None]

\* message.get(key, default)
Get(message, key, default) == IF key \in message.keys THEN message[key] ELSE default

\* create_progress_message as the streams use it
progress_message(progress, stage) ==
    Message({"progress", "stage", "status", "timestamp"}, "processing", progress, stage,
            NoResult)

\* the result is attached only `if result:`
create_success_message(result) ==
    Message({"progress", "stage", "status", "timestamp"}
                \union (IF Truthy(result) THEN {"result"} ELSE {}),
            "success", 100, COMPLETE, IF Truthy(result) THEN result ELSE NoResult)

\* the stage_failed of the "error" object is the argument the caller gives
create_error_message(stage_failed) ==
    [Message({"progress", "stage", "status", "error", "timestamp"}, "error", -1, "error",
             NoResult) EXCEPT !.stage_failed = stage_failed]

\* BaseService.execute_stream: `yield {"_final": True, **result}` with the dict
\* TestService.execute returns
final_message ==
    Message({"_final", "status", "message", "echo", "service"}, "success", 0, "", NoResult)

\* SSEEventFormatter._detect_event_type
detect_event_type(message) ==
    LET status == Get(message, "status", "processing")
        progress == Get(message, "progress", 0)
        stage == Get(message, "stage", "")
    IN IF status = "error" \/ "error" \in message.keys THEN "error"
       ELSE IF status = "success" /\ (progress = 100 \/ stage = "complete") THEN "complete"
       ELSE "progress"

\* sse_event_generator with auto_event_type: the event type it derives from
\* the status alone, None (no event line) for any other status
auto_event_type(message) ==
    LET status == Get(message, "status", None)
    IN IF status = "processing" THEN "progress"
       ELSE IF status = "success" THEN "complete"
       ELSE IF status = "error" THEN "error"
       ELSE None

\* format_event: the event line and the data line of the SSE event
format_event(message) == [event |-> detect_event_type(message), data |-> message]

\* ------------------------------------------------- MLService (ml_service.py)
PROGRESS_UPLOAD_START == 0
PROGRESS_UPLOAD_END == 25
PROGRESS_ML_START == 25
PROGRESS_ML_END == 85
PROGRESS_DOWNLOAD_START == 85
PROGRESS_DOWNLOAD_END == 100

\* _map_progress; the ratio is a float in the source, and int() of the sum
\* was compared with this integer form on every value the model draws
map_progress(source_progress, source_start, source_end, target_start, target_end) ==
    IF source_end = source_start THEN target_start
    ELSE target_start
           + (((source_progress - source_start) * (target_end - target_start))
                 \div (source_end - source_start))

\* percentages the stage messages of YaS3Service carry with the default stage
\* list, and percentages the remote ML service reports
S3Progress == {0, 50, 100}
RemoteProgress == {40, 100}

\* an event of the remote ML service, as json.loads gives it
RemoteEvent(keys, status, progress, result) ==
    [keys |-> keys, status |-> status, progress |-> progress, stage |-> "", result |-> result]

\* _call_ml_service_sse: the message yielded for one event of the remote service
ml_sse_message(event_data) ==
    LET status == Get(event_data, "status", None)
    IN IF status = "error" THEN create_error_message("ml_processing")
       ELSE IF status = "success"
       THEN Message({"progress", "stage", "status", "result"}, "success", 100,
                    "ml_complete", Get(event_data, "result", "empty"))
       ELSE Message({"progress", "stage", "status", "details"}, "processing",
                    Get(event_data, "progress", 0), "ml_processing", NoResult)

\* the generator positions of MLService.execute_stream that read a sub-stream
Phases == {"uploading_to_s3", "ml_processing", "downloading_result"}

phase_start(phase) ==
    CASE phase = "uploading_to_s3" -> PROGRESS_UPLOAD_START
      [] phase = "ml_processing" -> PROGRESS_ML_START
      [] phase = "downloading_result" -> PROGRESS_DOWNLOAD_START

phase_end(phase) ==
    CASE phase = "uploading_to_s3" -> PROGRESS_UPLOAD_END
      [] phase = "ml_processing" -> PROGRESS_ML_END
      [] phase = "downloading_result" -> PROGRESS_DOWNLOAD_END

\* `msg["progress"] = mapped_progress` when the message has the key
mapped(message, phase) ==
    IF "progress" \in message.keys
    THEN [message EXCEPT !.progress =
              map_progress(message.progress, 0, 100, phase_start(phase), phase_end(phase))]
    ELSE message

\* dicts a service may yield: each of the keys the classification reads is
\* there or not, with values on both sides of every comparison made
Payloads ==
    {Message(keys, status, progress, stage, NoResult):
        keys \in SUBSET {"status", "progress", "stage", "error"},
        status \in {"processing", "success", "error", "queued"},
        progress \in {0, 50, 100},
        stage \in {"", "processing", COMPLETE}}

\* one dict for each shape: a key that is absent has its default value
Shapes ==
    {m \in Payloads:
        /\ "status" \notin m.keys => m.status = "processing"
        /\ "progress" \notin m.keys => m.progress = 0
        /\ ("stage" \in m.keys) = (m.stage # "")}

\* ----------------------------------------------- execute_service_stream
\* names under which SSEServiceRegistry holds a service, and one it does not
StreamedServices == {"test", "ya_s3", "ml"}
MissingService == "missing"

\* no stream has been asked for
NoStream ==
    [via |-> "none", service |-> "", pc |-> "idle", result |-> NoResult, last |-> 0,
     n |-> 0, over |-> FALSE, out |-> << >>]

\* --------------------------------- ConnectionManager under concurrent tasks
ManagerTasks == 1..MaxTasks
Operations == {"connect", "get_connection", "get_channel", "reconnect", "close"}

\* settings.RABBITMQ_MAX_RECONNECT_ATTEMPTS (0 would mean: no limit)
RABBITMQ_MAX_RECONNECT_ATTEMPTS == 10

\* settings.RABBITMQ_RECONNECT_DELAY, in seconds
RABBITMQ_RECONNECT_DELAY == 5

\* what a call returned: nothing yet (or None), a connection, a channel, or
\* it raised
NothingReturned == [kind |-> "none", id |-> 0]
ConnectionReturned(id) == [kind |-> "connection", id |-> id]
ChannelReturned(id) == [kind |-> "channel", id |-> id]
ErrorRaised == [kind |-> "raised", id |-> 0]

\* a task that is in no call: the method called, the position in it, the
\* local `connection` of get_channel, the delays slept by reconnect
NoTask ==
    [op |-> "none", pc |-> "idle", connection |-> 0, delays |-> << >>,
     returned |-> NothingReturned]

\* ConnectionManager.__init__.  Connections are numbered in the order the
\* broker accepted them (0: None); `channels` holds, for each channel opened,
\* the connection it is on; `attempted` counts the connection attempts
\* reconnect() has made since the last connect that succeeded
ConnectionManager ==
    [connection |-> 0, reconnect_attempts |-> 0, closed |-> {}, established |-> 0,
     attempted |-> 0, channels |-> << >>, task |-> [t \in ManagerTasks |-> NoTask]]

\* `self._connection and not self._connection.is_closed`
is_open(m) == m.connection # 0 /\ m.connection \notin m.closed

\* a delay that doubles with every attempt
doubling_delay(attempt) == RABBITMQ_RECONNECT_DELAY * (2 ^ (attempt - 1))

\* the delay reconnect() sleeps before the attempt of the given number
reconnect_delay(attempt) == RABBITMQ_RECONNECT_DELAY

\* the method task t called returns or raises
task_returns(m, t, value) ==
    [m EXCEPT !.task[t] = [NoTask EXCEPT !.op = m.task[t].op, !.returned = value]]

\* connect() has handed self._connection to the method that task t called:
\* connect, get_connection and reconnect return it, get_channel goes on to
\* `await connection.channel()`
connected(m, t) ==
    IF m.task[t].op = "get_channel"
    THEN [m EXCEPT !.task[t].pc = "channel", !.task[t].connection = m.connection]
    ELSE task_returns(m, t, ConnectionReturned(m.connection))

\* connect() up to its first suspension: an open connection is returned as
\* it is, otherwise the task awaits aio_pika.connect_robust
connect_call(m, t) ==
    IF is_open(m) THEN connected(m, t)
    ELSE [m EXCEPT !.task[t].pc = "connect_robust",
                   !.attempted = IF m.task[t].op = "reconnect" THEN @ + 1 ELSE @]

\* a loop that goes on while the counter has not passed the limit
reconnect_loop_once_more(m, t) ==
    IF m.reconnect_attempts <= RABBITMQ_MAX_RECONNECT_ATTEMPTS
    THEN [m EXCEPT !.reconnect_attempts = @ + 1,
                   !.task[t].pc = "sleep",
                   !.task[t].delays = Append(@, reconnect_delay(m.reconnect_attempts + 1))]
    ELSE task_returns(m, t, ErrorRaised)

\* the `while` of reconnect(): count the attempt and sleep, or leave the loop
\* and raise
reconnect_loop(m, t) ==
    IF \/ RABBITMQ_MAX_RECONNECT_ATTEMPTS = 0
       \/ m.reconnect_attempts < RABBITMQ_MAX_RECONNECT_ATTEMPTS
    THEN [m EXCEPT !.reconnect_attempts = @ + 1,
                   !.task[t].pc = "sleep",
                   !.task[t].delays = Append(@, reconnect_delay(m.reconnect_attempts + 1))]
    ELSE task_returns(m, t, ErrorRaised)

\* ------------------------------------------ upload endpoints (file_router.py)
Uploads == 1..MaxUploads

\* a session no upload has touched: session.get('pending', False) and
\* session.get('need_download', False) are False, no file metadata (0: None,
\* otherwise the request whose file the metadata describes)
NewSession == [pending |-> FALSE, need_download |-> FALSE, last_uploaded_file |-> 0]

\* a request that has not been made: the endpoint, the position of the
\* handler, its locals `completed_successfully` and `temp_file_path` (set or
\* None), whether validation turned it away, whether it set `pending`, and
\* the events the service stream has given it
NoUpload ==
    [via |-> "none", pc |-> "idle", completed_successfully |-> FALSE,
     temp_file_path |-> FALSE, rejected |-> FALSE, set_pending |-> FALSE,
     progress |-> 0, terminal |-> FALSE]

\* FileUploadService.validate_session_state returns an error
validation_error(s) == s.pending \/ s.need_download

\* the `finally` of event_generator: when the run was not marked completed
\* and the session is pending, pending is cleared, and the temp file removed
\* (cleanup_temp_file also drops the metadata) unless a download is awaited.
\* `if session` is true here: the dict has a key once pending was set or
\* validation found a flag
finally_cleanup(s, u) ==
    IF ~u.completed_successfully /\ s.pending
    THEN [s EXCEPT !.pending = FALSE,
                   !.last_uploaded_file =
                       IF ~s.need_download /\ u.temp_file_path THEN 0 ELSE @]
    ELSE s

\* the except blocks of upload_file: both flags cleared, metadata dropped
except_cleanup(s) == [s EXCEPT !.pending = FALSE, !.need_download = FALSE,
                               !.last_uploaded_file = 0]

\* ------------------------------------------------ SSEService (sse_service.py)
\* client ids: of a browser session and of a task or upload started from it
ClientIds == {"session", "task"}

Connections == 1..MaxConnections

\* an SSEConnection not created yet
NoConnection ==
    [client_id |-> None, is_active |-> FALSE, queue |-> << >>, out |-> << >>, pc |-> "none"]

\* SSEConnection.__init__
SSEConnection(client_id) ==
    [client_id |-> client_id, is_active |-> TRUE, queue |-> << >>, out |-> << >>,
     pc |-> "created"]

\* SSEConnection.send_message: the dict put on the queue (timestamp aside);
\* the data of the n-th call is n
QueuedMessage(n) == [event |-> "task_progress", data |-> n]

\* the None that close() puts on the queue
CloseSignal == [event |-> None, data |-> 0]

\* what event_stream yields besides queued messages (client id and
\* timestamp aside)
Connected == [event |-> "connected", data |-> 0]
Heartbeat == [event |-> "heartbeat", data |-> 0]

\* a resolution that ignores the mapping
unmapped_client_id(mapping, client_id) == client_id

\* self.client_mapping.get(client_id, client_id)
get_mapped_client_id(mapping, client_id) ==
    IF mapping[client_id] # None THEN mapping[client_id] ELSE client_id

\* remove_connection: close() is scheduled and the entry deleted
remove_connection(entries, tasks, client_id) ==
    IF entries[client_id] # 0
    THEN [connections |-> [entries EXCEPT ![client_id] = 0],
          close_tasks |-> tasks \union {entries[client_id]}]
    ELSE [connections |-> entries, close_tasks |-> tasks]

\* heartbeats among the events a stream has yielded
RECURSIVE Heartbeats(_)
Heartbeats(out) ==
    IF out = << >> THEN 0
    ELSE (IF Head(out) = Heartbeat THEN 1 ELSE 0) + Heartbeats(Tail(out))

\* ------------------------------------------------------------------ Init
Init ==
    /\ channel = FALSE
    /\ consumer_tag = FALSE
    /\ listening = FALSE
    /\ futures = << >>
    /\ locked = FALSE
    /\ waiters = << >>
    /\ nextId = 1
    /\ pc = [c \in Callers |-> "idle"]
    /\ corr = [c \in Callers |-> NoCorrelationId]
    /\ req = [c \in Callers |-> NoCall]
    /\ timerFired = [c \in Callers |-> FALSE]
    /\ returned = NoOutcome
    /\ rpcQueue = << >>
    /\ replyQueue = << >>
    /\ consuming = FALSE
    /\ inflight = [req |-> NoRequest, sent |-> << >>, broker_ok |-> TRUE, busy |-> FALSE]
    /\ nForeign = 0
    /\ served = [c \in Callers |-> FALSE]
    /\ nCrashes = 0
    /\ connection = "none"
    /\ reconnect_attempts = 0
    /\ manager = ConnectionManager
    /\ service_name = << >>
    /\ method_name = << >>
    /\ sys_path_has_src = FALSE
    /\ scanned = {}
    /\ file_path = ""
    /\ services = << >>
    /\ registry = [registered |-> FALSE, entries |-> << >>]
    /\ stage_definition = NotLoaded
    /\ tracker = NotStarted
    /\ start_time = 0
    /\ invocation = [i \in Invocations |-> NoInvocation]
    /\ stream = NoStream
    /\ connections = [id \in ClientIds |-> 0]
    /\ client_mapping = [id \in ClientIds |-> None]
    /\ sse_conn = [c \in Connections |-> NoConnection]
    /\ close_tasks = {}
    /\ sends = << >>
    /\ session = NewSession
    /\ upload = [r \in Uploads |-> NoUpload]


\* ------------------------------------------------------ RPCProducer.call
brokerVars == <<rpcQueue, replyQueue, consuming, inflight, nForeign>>
connVars == <<channel, consumer_tag, listening>>

\* a call() that leaves its entry in the table
finally_pop_missing(fs, cid) == fs

\* `finally: self._futures.pop(correlation_id, None)`
finally_pop(fs, cid) == Remove(fs, cid)

\* The caller's call() ends with outcome o: the finally block pops the
\* entry, `async with` releases the lock (the first queued task is woken and
\* acquires later), and the task is free to call again.
Finish(c, cid, fs, o) ==
    /\ futures' = finally_pop(fs, cid)
    /\ locked' = FALSE
    /\ returned' = o
    /\ pc' = [pc EXCEPT ![c] = "idle"]
    /\ corr' = [corr EXCEPT ![c] = NoCorrelationId]
    /\ req' = [req EXCEPT ![c] = NoCall]
    /\ timerFired' = [timerFired EXCEPT ![c] = FALSE]
    /\ served' = [served EXCEPT ![c] = FALSE]

\* Body of call() from the lock acquisition to its first suspension point:
\* register the future under the fresh id, then _publish_request, which
\* raises RuntimeError at once when the producer has no channel.
Enter(c, cid, rq) ==
    IF ~channel
    THEN /\ futures' = finally_pop(Put(futures, cid, PendingFuture), cid)
         /\ locked' = FALSE
         /\ returned' = NotConnectedOutcome
         /\ pc' = [pc EXCEPT ![c] = "idle"]
         /\ corr' = [corr EXCEPT ![c] = NoCorrelationId]
         /\ req' = [req EXCEPT ![c] = NoCall]
    ELSE /\ futures' = Put(futures, cid, PendingFuture)
         /\ locked' = TRUE
         /\ pc' = [pc EXCEPT ![c] = "publishing"]
         /\ corr' = [corr EXCEPT ![c] = cid]
         /\ req' = [req EXCEPT ![c] = rq]
         /\ UNCHANGED returned

\* a lock that guards composing and publishing only
lock_released_after_publish == FALSE

\* `async with self._lock` encloses the whole body of call(), the wait for
\* the reply included: the lock stays held when the publish has completed
lock_held_while_awaiting == TRUE

\* asyncio.Lock.acquire takes the lock without suspending only when it is
\* free and nobody is queued for it
LockIsFree == ~locked /\ waiters = << >>

\* A task invokes call(method, params, timeout).
call(c, rq) ==
    /\ pc[c] = "idle"
    /\ nextId <= MaxCalls
    /\ nextId' = nextId + 1
    /\ IF LockIsFree
       THEN Enter(c, nextId, rq) /\ UNCHANGED waiters
       ELSE /\ waiters' = Append(waiters, c)
            /\ pc' = [pc EXCEPT ![c] = "lock_wait"]
            /\ corr' = [corr EXCEPT ![c] = nextId]
            /\ req' = [req EXCEPT ![c] = rq]
            /\ UNCHANGED <<futures, locked, returned>>
    /\ UNCHANGED <<connVars, brokerVars, timerFired, served>>
    /\ UNCHANGED extVars

\* The first task queued on the lock gets it after a release.
acquire_lock(c) ==
    /\ pc[c] = "lock_wait"
    /\ ~locked
    /\ waiters # << >> /\ Head(waiters) = c
    /\ waiters' = Tail(waiters)
    /\ Enter(c, corr[c], req[c])
    /\ UNCHANGED <<connVars, brokerVars, nextId, timerFired, served>>
    /\ UNCHANGED extVars

\* `await self._publish_request(...)` completes: the request is on the work
\* queue and wait_for starts (ok), or the publish raised (~ok).
publish_request(c, ok) ==
    /\ pc[c] = "publishing"
    /\ IF ok
       THEN /\ rpcQueue' = Append(rpcQueue,
                   [corr |-> corr[c], reply_to |-> CallbackQueue,
                    body |-> JsonRequest(req[c].method, req[c].params, corr[c])])
            /\ pc' = [pc EXCEPT ![c] = "awaiting"]
            /\ locked' = lock_held_while_awaiting
            /\ UNCHANGED <<futures, returned, corr, req, timerFired, served>>
       ELSE /\ Finish(c, corr[c], futures, PublishFailedOutcome)
            /\ UNCHANGED rpcQueue
    /\ UNCHANGED <<connVars, waiters, nextId, replyQueue, consuming, inflight, nForeign>>
    /\ UNCHANGED extVars

\* The timeout handle of wait_for runs (_release_waiter): the caller is
\* scheduled to resume; the future itself is not touched yet.
timer_fires(c) ==
    /\ pc[c] = "awaiting"
    /\ ~timerFired[c]
    /\ timerFired' = [timerFired EXCEPT ![c] = TRUE]
    /\ served' = [served EXCEPT ![c] =
                     served[c] /\ ~\E i \in 1..Len(replyQueue): replyQueue[i].corr = corr[c]]
    /\ UNCHANGED <<connVars, brokerVars, futures, locked, waiters, nextId, pc, corr, req,
                   returned>>
    /\ UNCHANGED extVars

\* wait_for resumes after its waiter was released, by the future's done
\* callback or by the timer: a done future gives its result or exception;
\* otherwise the future is cancelled and wait_for yields once more
\* (_cancel_and_wait) before raising TimeoutError.
wait_for_resume(c) ==
    /\ pc[c] = "awaiting"
    /\ futures[corr[c]].state # "pending" \/ timerFired[c]
    /\ IF futures[corr[c]].state # "pending"
       THEN Finish(c, corr[c], futures, FutureOutcome(futures[corr[c]]))
       ELSE /\ futures' = [futures EXCEPT ![corr[c]] = cancel(@)]
            /\ pc' = [pc EXCEPT ![c] = "cancelling"]
            /\ UNCHANGED <<locked, returned, corr, req, timerFired, served>>
    /\ UNCHANGED <<connVars, brokerVars, waiters, nextId>>
    /\ UNCHANGED extVars

\* _cancel_and_wait returns: fut.result() raises CancelledError, call()
\* raises TimeoutError and the finally block pops the entry.
timeout_raise(c) ==
    /\ pc[c] = "cancelling"
    /\ Finish(c, corr[c], futures, FutureOutcome(futures[corr[c]]))
    /\ UNCHANGED <<connVars, brokerVars, waiters, nextId>>
    /\ UNCHANGED extVars

\* ------------------------------------------------------ ConnectionManager
\* ConnectionManager.connect: an open connection is returned as it is;
\* otherwise connect_robust either succeeds, which resets the attempt
\* counter, or raises AMQPConnectionError
manager_connect(conn, attempts, ok) ==
    IF conn = "open" THEN [connection |-> conn, attempts |-> attempts, raised |-> FALSE]
    ELSE IF ok THEN [connection |-> "open", attempts |-> 0, raised |-> FALSE]
    ELSE [connection |-> conn, attempts |-> attempts, raised |-> TRUE]

\* One iteration of the loop of ConnectionManager.reconnect: count the
\* attempt, sleep, connect.  After a failed attempt the loop goes on while the
\* counter is below the limit and re-raises once it is reached.
reconnect(ok) ==
    /\ reconnect_attempts < RABBITMQ_MAX_RECONNECT_ATTEMPTS
    /\ connection' = manager_connect(connection, reconnect_attempts + 1, ok).connection
    /\ reconnect_attempts' = manager_connect(connection, reconnect_attempts + 1, ok).attempts
    /\ UNCHANGED <<producerVars, brokerVars, served, nCrashes, manager, appVars>>

\* The connection to the broker drops: the exclusive callback queue goes
\* with it.
connection_lost ==
    /\ connection = "open"
    /\ connection' = "closed"
    /\ listening' = FALSE
    /\ replyQueue' = << >>
    /\ UNCHANGED <<channel, consumer_tag, futures, locked, waiters, nextId, pc, corr, req,
                   timerFired, returned, rpcQueue, consuming, inflight, nForeign, served,
                   nCrashes, reconnect_attempts, manager, appVars>>

\* what the tasks calling a ConnectionManager leave alone
ManagerUnchanged ==
    UNCHANGED <<producerVars, brokerVars, served, nCrashes, connection, reconnect_attempts,
                appVars>>

\* task t calls a method of the manager, which runs to its first suspension.
\* close() closes an open connection.
manager_call(t, op) ==
    /\ manager.task[t].pc = "idle"
    /\ op = "get_channel" => Len(manager.channels) < MaxChannels
    /\ LET m == [manager EXCEPT !.task[t] = [NoTask EXCEPT !.op = op]]
       IN manager' =
            CASE op = "reconnect" -> reconnect_loop(m, t)
              [] op = "close" ->
                    task_returns(IF is_open(m)
                                 THEN [m EXCEPT !.closed = @ \union {m.connection}]
                                 ELSE m, t, NothingReturned)
              [] OTHER -> connect_call(m, t)
    /\ ManagerUnchanged

\* `await asyncio.sleep(...)` of reconnect() is over: connect() is called
sleep_ends(t) ==
    /\ manager.task[t].pc = "sleep"
    /\ manager' = connect_call(manager, t)
    /\ ManagerUnchanged

\* `await aio_pika.connect_robust(self.url)` of task t completes.  On success
\* the new connection is stored and the attempt counter reset; on
\* AMQPConnectionError connect() re-raises, which reconnect() catches: it
\* re-raises when the limit is reached and loops otherwise
connect_robust(t, ok) ==
    /\ manager.task[t].pc = "connect_robust"
    /\ ok => manager.established < MaxEstablished
    /\ manager' =
          IF ok
          THEN connected([manager EXCEPT !.established = @ + 1,
                                         !.connection = manager.established + 1,
                                         !.reconnect_attempts = 0,
                                         !.attempted = 0], t)
          ELSE IF /\ manager.task[t].op = "reconnect"
                  /\ ~(/\ RABBITMQ_MAX_RECONNECT_ATTEMPTS > 0
                       /\ manager.reconnect_attempts >= RABBITMQ_MAX_RECONNECT_ATTEMPTS)
          THEN reconnect_loop(manager, t)
          ELSE task_returns(manager, t, ErrorRaised)
    /\ ManagerUnchanged

\* `await connection.channel()` of get_channel completes: the connection
\* opens a new channel, or raises when it was closed meanwhile
channel_opened(t) ==
    /\ manager.task[t].pc = "channel"
    /\ manager' =
          IF manager.task[t].connection \in manager.closed
          THEN task_returns(manager, t, ErrorRaised)
          ELSE task_returns([manager EXCEPT !.channels = Append(@, manager.task[t].connection)],
                            t, ChannelReturned(Len(manager.channels) + 1))
    /\ ManagerUnchanged

\* what the upload endpoints leave alone
UploadUnchanged ==
    UNCHANGED <<producerVars, brokerVars, served, nCrashes, managerVars, nameVars,
                loaderVars, sseVars>>

\* the generator of request r ends: its `finally` has run
generator_ends(r, s) ==
    /\ session' = finally_cleanup(s, upload[r])
    /\ upload' = [upload EXCEPT ![r].pc = "done"]

\* POST /files/upload/stream: event_generator runs to its first suspension.
\* A failed validation yields an error event; otherwise pending is set and
\* the file is being saved
upload_file_stream(r) ==
    /\ upload[r].pc = "idle"
    /\ IF validation_error(session)
       THEN /\ upload' = [upload EXCEPT ![r] = [NoUpload EXCEPT !.via = "stream",
                                                               !.pc = "yield_error",
                                                               !.rejected = TRUE]]
            /\ UNCHANGED session
       ELSE /\ upload' = [upload EXCEPT ![r] = [NoUpload EXCEPT !.via = "stream",
                                                               !.pc = "saving",
                                                               !.set_pending = TRUE]]
            /\ session' = [session EXCEPT !.pending = TRUE]
    /\ UploadUnchanged

\* `await file_service.save_uploaded_file(...)` completes, and
\* cleanup_previous_file after it; the service stream is then iterated.  An
\* exception reaches `except Exception`, which clears both flags and yields
\* an error event
save_uploaded_file(r, ok) ==
    /\ upload[r].pc = "saving"
    /\ IF ok
       THEN /\ upload' = [upload EXCEPT ![r].pc = "streaming", ![r].temp_file_path = TRUE]
            /\ session' = [session EXCEPT !.last_uploaded_file = 0]
       ELSE /\ upload' = [upload EXCEPT ![r].pc = "yield_error"]
            /\ session' = [session EXCEPT !.pending = FALSE, !.need_download = FALSE]
    /\ UploadUnchanged

\* sse_registry.execute_service_stream gives its next event: progress events,
\* then a complete or an error event.  `completed_successfully` is set
\* before the event is yielded to the client
service_event(r, event) ==
    /\ upload[r].pc = "streaming"
    /\ ~upload[r].terminal
    /\ event = "progress" => upload[r].progress < MaxProgress
    /\ upload' = [upload EXCEPT
                     ![r].pc = "yield_event",
                     ![r].progress = IF event = "progress" THEN @ + 1 ELSE @,
                     ![r].terminal = event # "progress",
                     ![r].completed_successfully = @ \/ event = "complete"]
    /\ UNCHANGED session
    /\ UploadUnchanged

\* the client takes the event: the generator resumes after `yield sse_event`,
\* passes `await asyncio.sleep(0)` and asks the service stream for more
resume_after_yield(r) ==
    /\ upload[r].pc = "yield_event"
    /\ upload' = [upload EXCEPT ![r].pc = "streaming"]
    /\ UNCHANGED session
    /\ UploadUnchanged

\* the service stream is exhausted: after a complete event the metadata is
\* saved, pending cleared and need_download set; then the `finally` runs
stream_exhausted(r) ==
    /\ upload[r].pc = "streaming"
    /\ upload[r].terminal
    /\ generator_ends(r, IF upload[r].completed_successfully
                         THEN [session EXCEPT !.last_uploaded_file = r,
                                              !.pending = FALSE,
                                              !.need_download = TRUE]
                         ELSE session)
    /\ UploadUnchanged

\* the generator is resumed, or closed, where it yielded its own error event
\* (failed validation, `except Exception`): it ends through the `finally`
error_yield_left(r) ==
    /\ upload[r].pc = "yield_error"
    /\ generator_ends(r, session)
    /\ UploadUnchanged

\* the client disconnects while the generator is suspended in an await or
\* at the yield of a service event: CancelledError or GeneratorExit, which
\* `except Exception` does not catch, takes it to the `finally`
client_gone(r) ==
    /\ upload[r].pc \in {"saving", "streaming", "yield_event"}
    /\ generator_ends(r, session)
    /\ UploadUnchanged

\* POST /files/upload up to its first suspension: a pending or
\* download-awaiting session raises HTTPException, which the handler's own
\* `except HTTPException` takes; otherwise pending is set, the previous
\* file and its metadata are removed and the file goes to the ML service
upload_file(r) ==
    /\ upload[r].pc = "idle"
    /\ IF validation_error(session)
       THEN /\ upload' = [upload EXCEPT ![r] = [NoUpload EXCEPT !.via = "upload",
                                                               !.pc = "done",
                                                               !.rejected = TRUE]]
            /\ session' = except_cleanup(session)
       ELSE /\ upload' = [upload EXCEPT ![r] = [NoUpload EXCEPT !.via = "upload",
                                                               !.pc = "calling",
                                                               !.set_pending = TRUE]]
            /\ session' = [session EXCEPT !.pending = TRUE, !.last_uploaded_file = 0]
    /\ UploadUnchanged

\* producer.call of upload_file returns, or it or anything before it raised
upload_file_returns(r, ok) ==
    /\ upload[r].pc = "calling"
    /\ upload' = [upload EXCEPT ![r].pc = "done", ![r].completed_successfully = ok]
    /\ session' = IF ok THEN [session EXCEPT !.last_uploaded_file = r,
                                             !.pending = FALSE,
                                             !.need_download = TRUE]
                  ELSE except_cleanup(session)
    /\ UploadUnchanged

\* ------------------------------------------- RPCProducer.connect / close
\* connect(): get_channel (which connects the manager when it has no open
\* connection), exclusive auto-delete callback queue, consume(_on_response)
connect ==
    /\ ~listening
    /\ channel' = TRUE
    /\ consumer_tag' = TRUE
    /\ listening' = TRUE
    /\ replyQueue' = << >>
    /\ UNCHANGED <<futures, locked, waiters, nextId, pc, corr, req, timerFired, returned,
                   rpcQueue, consuming, inflight, nForeign, served, nCrashes, manager,
                   appVars>>
    /\ connection' = manager_connect(connection, reconnect_attempts, TRUE).connection
    /\ reconnect_attempts' = manager_connect(connection, reconnect_attempts, TRUE).attempts

\* close(): cancels the consumer tag on the callback queue and does nothing
\* else; the auto-delete queue goes away with its last consumer.
close ==
    /\ consumer_tag
    /\ listening
    /\ listening' = FALSE
    /\ replyQueue' = << >>
    /\ served' = [c \in Callers |-> FALSE]
    /\ UNCHANGED <<channel, consumer_tag, futures, locked, waiters, nextId, pc, corr,
                   req, timerFired, returned, rpcQueue, consuming, inflight, nForeign>>
    /\ UNCHANGED extVars

\* ------------------------------------------------ RPCProducer._on_response
\* a lookup that falls back to some pending entry when the id is not found
futures_get_any(cid) ==
    IF cid \in DOMAIN futures THEN cid
    ELSE IF DOMAIN futures # {} THEN CHOOSE k \in DOMAIN futures: TRUE
    ELSE NoCorrelationId

\* `self._futures.get(correlation_id)`: the key of the entry found, or
\* NoCorrelationId when there is none
futures_get(cid) == IF cid \in DOMAIN futures THEN cid ELSE NoCorrelationId

\* The try block after the lookup: json.loads, then set_exception for an
\* error object or set_result otherwise.  ok = FALSE is a raised exception e.
try_resolve(f, m) ==
    IF m.body.kind = "malformed"
    THEN [ok |-> FALSE, fut |-> f, e |-> "ParseError"]
    ELSE IF m.body.kind = "error"
    THEN [ok |-> set_exception(f, "RPCError", m).ok,
          fut |-> set_exception(f, "RPCError", m).fut, e |-> "InvalidStateError"]
    ELSE [ok |-> set_result(f, m).ok, fut |-> set_result(f, m).fut,
          e |-> "InvalidStateError"]

\* `except Exception as e`: set e on the entry's future when the id is still
\* in the table; that set_exception is not guarded and may raise in turn
except_handler(fs, cid, e, m) ==
    IF cid # NoCorrelationId /\ cid \in DOMAIN fs
    THEN [futures |-> [fs EXCEPT ![cid] = set_exception(fs[cid], e, m).fut],
          raised |-> ~set_exception(fs[cid], e, m).ok]
    ELSE [futures |-> fs, raised |-> FALSE]

\* _on_response(message): the table afterwards and whether the callback raised
on_response(m) ==
    IF m.corr = NoCorrelationId
    THEN [futures |-> futures, raised |-> FALSE]
    ELSE IF futures_get(m.corr) = NoCorrelationId
    THEN [futures |-> futures, raised |-> FALSE]
    ELSE IF try_resolve(futures[futures_get(m.corr)], m).ok
    THEN [futures |-> [futures EXCEPT ![futures_get(m.corr)] =
                           try_resolve(futures[futures_get(m.corr)], m).fut],
          raised |-> FALSE]
    ELSE except_handler(futures, m.corr,
                        try_resolve(futures[futures_get(m.corr)], m).e, m)

\* replies that reach the callback queue from publishers other than this
\* repository's consumer (another worker build, a duplicate, a stray message):
\* no id, an id this producer never made, or the id of a request that has
\* been published (uuid4 ids cannot be known before that)
PublishedIds ==
    {k \in 1..(nextId - 1):
        \A c \in Callers: corr[c] = k => pc[c] \in {"awaiting", "cancelling"}}
ReplyBodies == {ResultBody("echo"), ErrorBody(-32000, "Server error"), MalformedBody}
IncomingReplies ==
    {[corr |-> k, body |-> b] : k \in {NoCorrelationId, NeverIssued} \cup PublishedIds,
                                b \in ReplyBodies}

\* The broker hands the callback a reply some other publisher sent.
reply_arrives(m) ==
    /\ listening
    /\ futures' = on_response(m).futures
    /\ UNCHANGED <<connVars, brokerVars, locked, waiters, nextId, pc, corr, req,
                   timerFired, returned, served>>
    /\ UNCHANGED extVars

\* The broker hands the callback the oldest reply on the callback queue.
deliver_reply ==
    /\ listening
    /\ replyQueue # << >>
    /\ futures' = on_response(Head(replyQueue)).futures
    /\ replyQueue' = Tail(replyQueue)
    /\ UNCHANGED <<connVars, locked, waiters, nextId, pc, corr, req, timerFired, returned,
                   rpcQueue, consuming, inflight, nForeign, served>>
    /\ UNCHANGED extVars

\* ------------------------------------------------------ JSONRPCDispatcher
\* the capability behind "test.execute": returns an echo, or raises
execute(params) == [raised |-> params = "p_raise", value |-> "echo"]

\* sync_execute_wrapper / async_execute_wrapper: Success(result), or the
\* exception re-raised as ServiceExecutionError, which jsonrpcserver turns
\* into a server-error response
execute_wrapper(params) ==
    IF execute(params).raised
    THEN ErrorBody(-32000, "Server error")
    ELSE ResultBody(execute(params).value)

\* What awaiting handle_request(request_body) returns: the response that
\* async_dispatch builds for the body
handle_request(body) ==
    IF body.fmt # "json" THEN ErrorBody(-32700, "Parse error")
    ELSE IF body.method \notin RegisteredMethods THEN ErrorBody(-32601, "Method not found")
    ELSE execute_wrapper(body.params)

\* Calling a coroutine function without `await` runs none of its body and
\* yields a coroutine object, whatever the body would have returned.
CallWithoutAwait(value) == Coroutine

\* ------------------------------------------------------------ RPCConsumer
\* _send_response: what gets published.  get_channel or publish raising
\* (~ok), or a body without .encode(), is caught and logged: nothing is sent.
send_response(reply_to, response_body, correlation_id, ok) ==
    IF ~ok \/ response_body.kind = "coroutine"
    THEN << >>
    ELSE << [to |-> reply_to, corr |-> correlation_id, body |-> response_body] >>

\* the body of `async with message.process()` in on_message: the replies it
\* publishes for message m
on_message_body(m, ok) ==
    IF m.body.fmt = "binary"
    THEN \* message.body.decode() raises: the except branch
         IF m.reply_to # NoReplyTo
         THEN send_response(m.reply_to, ErrorBody(-32603, "Internal error"), m.corr, ok)
         ELSE << >>
    ELSE IF m.reply_to # NoReplyTo
         THEN send_response(m.reply_to, CallWithoutAwait(handle_request(m.body)), m.corr, ok)
         ELSE << >>

\* default exchange: a message whose routing key names the callback queue is
\* queued there while the queue exists; any other is dropped
Route(q, sent) ==
    IF sent # << >> /\ sent[1].to = CallbackQueue /\ listening
    THEN Append(q, [corr |-> sent[1].corr, body |-> sent[1].body])
    ELSE q

Idle == [req |-> NoRequest, sent |-> << >>, broker_ok |-> TRUE, busy |-> FALSE]

start_consuming ==
    /\ ~consuming
    /\ consuming' = TRUE
    /\ UNCHANGED <<producerVars, rpcQueue, replyQueue, inflight, nForeign, served>>
    /\ UNCHANGED extVars

\* on_message up to the end of the `async with` body: the oldest request is
\* taken, handled, and its reply attempted; the message is not yet acknowledged
on_message(ok) ==
    /\ consuming
    /\ ~inflight.busy
    /\ rpcQueue # << >>
    /\ rpcQueue' = Tail(rpcQueue)
    /\ inflight' = [req |-> Head(rpcQueue), sent |-> on_message_body(Head(rpcQueue), ok),
                    broker_ok |-> ok, busy |-> TRUE]
    /\ replyQueue' = Route(replyQueue, on_message_body(Head(rpcQueue), ok))
    /\ served' = [c \in Callers |->
                     IF corr[c] = Head(rpcQueue).corr /\ pc[c] = "awaiting"
                     THEN ok /\ listening /\ ~timerFired[c]
                     ELSE served[c]]
    /\ UNCHANGED <<producerVars, consuming, nForeign>>
    /\ UNCHANGED extVars

\* leaving `async with message.process()`: the message is acknowledged
process_exit ==
    /\ inflight.busy
    /\ inflight' = Idle
    /\ UNCHANGED <<producerVars, rpcQueue, replyQueue, consuming, nForeign, served>>
    /\ UNCHANGED extVars

\* requests another publisher puts on the shared work queue
ForeignRequests ==
    {[corr |-> NeverIssued, reply_to |-> r, body |-> b] :
        r \in {NoReplyTo, CallbackQueue}, b \in {GarbageBody, BinaryBody}}

foreign_publish(m) ==
    /\ nForeign < MaxForeign
    /\ nForeign' = nForeign + 1
    /\ rpcQueue' = Append(rpcQueue, m)
    /\ UNCHANGED <<producerVars, replyQueue, consuming, inflight, served>>
    /\ UNCHANGED extVars

\* --------------------------------------------- acknowledgement, worker crash
\* a consumer registered with no_ack=True: delivery itself settles the message
no_ack_consume == TRUE

\* `queue.consume(self.on_message)`: no_ack is left at its default, so the
\* broker keeps every delivered message until it is acknowledged
no_ack == FALSE

\* what the broker holds as delivered to the consumer and not yet acknowledged
Unacked == IF inflight.busy /\ ~no_ack THEN << inflight.req >> ELSE << >>

\* every request the broker still owes a delivery or awaits an ack for
Outstanding == Unacked \o rpcQueue

\* The worker process dies (or loses its connection) at any point: its
\* channel closes and the broker requeues what was delivered but not
\* acknowledged.  The worker can be started again.
consumer_crash ==
    /\ consuming
    /\ nCrashes < MaxCrashes
    /\ nCrashes' = nCrashes + 1
    /\ consuming' = FALSE
    /\ rpcQueue' = Unacked \o rpcQueue
    /\ inflight' = Idle
    /\ UNCHANGED <<producerVars, replyQueue, nForeign, served, managerVars, appVars>>

\* -------------------------------------------- strings, to_snake_case
\* a Python str is a sequence of one-character strings
UpperCase ==
    <<"A", "B", "C", "D", "E", "F", "G", "H", "I", "J", "K", "L", "M",
      "N", "O", "P", "Q", "R", "S", "T", "U", "V", "W", "X", "Y", "Z">>
LowerCase ==
    <<"a", "b", "c", "d", "e", "f", "g", "h", "i", "j", "k", "l", "m",
      "n", "o", "p", "q", "r", "s", "t", "u", "v", "w", "x", "y", "z">>
Digits == {"0", "1", "2", "3", "4", "5", "6", "7", "8", "9"}

\* the regex classes [A-Z], [a-z] and [a-z0-9]
IsUpper(ch) == \E i \in 1..Len(UpperCase): UpperCase[i] = ch
IsLower(ch) == \E i \in 1..Len(LowerCase): LowerCase[i] = ch
IsLowerOrDigit(ch) == IsLower(ch) \/ ch \in Digits

\* a lower() that leaves the characters as they are
keep_case(ch) == ch

\* str.lower() on one character
lower_char(ch) ==
    IF IsUpper(ch) THEN LowerCase[CHOOSE i \in 1..Len(UpperCase): UpperCase[i] = ch] ELSE ch

lower(s) == [i \in 1..Len(s) |-> lower_char(s[i])]

\* str.endswith
endswith(s, suffix) ==
    Len(s) >= Len(suffix) /\ SubSeq(s, Len(s) - Len(suffix) + 1, Len(s)) = suffix

\* last index of the run of [a-z] that starts at k (greedy [a-z]+)
LowerRunEnd(s, k) ==
    CHOOSE j \in k..Len(s):
        /\ \A x \in k..j: IsLower(s[x])
        /\ j = Len(s) \/ ~IsLower(s[j + 1])

\* re.sub('(.)([A-Z][a-z]+)', r'\1_\2', s), scanning from index i: at the
\* leftmost match an underscore goes in after the first character and the scan
\* goes on behind the match
RECURSIVE sub_capitalized(_, _)
sub_capitalized(s, i) ==
    IF i > Len(s) THEN << >>
    ELSE IF i + 2 <= Len(s) /\ IsUpper(s[i + 1]) /\ IsLower(s[i + 2])
    THEN << s[i], "_" >> \o SubSeq(s, i + 1, LowerRunEnd(s, i + 2))
             \o sub_capitalized(s, LowerRunEnd(s, i + 2) + 1)
    ELSE << s[i] >> \o sub_capitalized(s, i + 1)

\* re.sub('([a-z0-9])([A-Z])', r'\1_\2', s), scanning from index i
RECURSIVE sub_lower_upper(_, _)
sub_lower_upper(s, i) ==
    IF i > Len(s) THEN << >>
    ELSE IF i + 1 <= Len(s) /\ IsLowerOrDigit(s[i]) /\ IsUpper(s[i + 1])
    THEN << s[i], "_", s[i + 1] >> \o sub_lower_upper(s, i + 2)
    ELSE << s[i] >> \o sub_lower_upper(s, i + 1)

\* utils.string_utils.to_snake_case
to_snake_case(name) == lower(sub_lower_upper(sub_capitalized(name, 1), 1))

\* ------------------------------- ServiceLoader.get_service_method_name
ServiceSuffix == <<"S", "e", "r", "v", "i", "c", "e">>
ExecuteSuffix == <<".", "e", "x", "e", "c", "u", "t", "e">>

\* `if service_name.endswith('Service'): base_name = service_name[:-7]`
base_name(name) ==
    IF endswith(name, ServiceSuffix) THEN SubSeq(name, 1, Len(name) - 7) ELSE name

get_service_method_name(name) == to_snake_case(base_name(name)) \o ExecuteSuffix

\* class names: the services named in the documentation and tests, and every
\* short name over a few characters, with and without the "Service" suffix
TestServiceName == <<"T", "e", "s", "t">> \o ServiceSuffix
TranslateServiceName == <<"T", "r", "a", "n", "s", "l", "a", "t", "e">> \o ServiceSuffix
SpeechServiceName == <<"S", "p", "e", "e", "c", "h">> \o ServiceSuffix
VideoProcessingServiceName ==
    <<"V", "i", "d", "e", "o", "P", "r", "o", "c", "e", "s", "s", "i", "n", "g">>
        \o ServiceSuffix
MLServiceName == <<"M", "L">> \o ServiceSuffix
YaS3ServiceName == <<"Y", "a", "S", "3">> \o ServiceSuffix

NameAlphabet == {"M", "L", "l", "3"}
ShortNames == UNION {[1..n -> NameAlphabet] : n \in 0..MaxNameLen}
DocumentedNames ==
    {TestServiceName, TranslateServiceName, SpeechServiceName,
     VideoProcessingServiceName, MLServiceName, YaS3ServiceName}
GeneratedNames ==
    {b \o suffix : b \in ShortNames,
                   suffix \in {<< >>, ServiceSuffix, ServiceSuffix \o ServiceSuffix}}
ClassNames == (DocumentedNames \cup GeneratedNames) \ {<< >>}

\* loader.get_service_method_name(service) for a service whose class is named n:
\* any name on the first call, the documented names on every later one
name_service(n) ==
    /\ service_name = << >> \/ n \in DocumentedNames
    /\ service_name' = n
    /\ method_name' = get_service_method_name(n)
    /\ UNCHANGED <<producerVars, brokerVars, served, nCrashes, managerVars, webVars, loaderVars, sseVars>>

\* ------------------------------------------ ServiceLoader.discover_services
\* A service class: its name, whether service_class() returns, and what its
\* configuration module holds: "enabled" / "disabled" (RPC_ENABLED True /
\* False), "unset" (settings without the flag, or no settings object),
\* "missing" (no module: get_config writes one with RPC_ENABLED = False),
\* "raises" (importing the module raises something other than ImportError)
ServiceClass(name, constructs, config) ==
    [name |-> name, constructs |-> constructs, config |-> config]

TestServiceClass == ServiceClass(TestServiceName, TRUE, "enabled")
MLServiceClass == ServiceClass(MLServiceName, TRUE, "enabled")
YaS3ServiceClass == ServiceClass(YaS3ServiceName, TRUE, "enabled")
MlServiceClass == ServiceClass(<<"M", "l">> \o ServiceSuffix, TRUE, "enabled")
DisabledClass == ServiceClass(<<"L">> \o ServiceSuffix, TRUE, "disabled")
UnsetClass == ServiceClass(<<"L", "3">> \o ServiceSuffix, TRUE, "unset")
MissingConfigClass == ServiceClass(<<"M", "3">> \o ServiceSuffix, TRUE, "missing")
BrokenConfigClass == ServiceClass(<<"3">> \o ServiceSuffix, TRUE, "raises")
BrokenInitClass == ServiceClass(<<"L", "l">> \o ServiceSuffix, FALSE, "enabled")

\* A *_service.py file: its path below the services directory, whether it
\* lies in a subdirectory, whether executing the module raises, and the
\* BaseService subclasses in the module's namespace in getmembers order,
\* those it imports from other modules included.
ServiceFile(path, nested, import_raises, classes) ==
    [path |-> path, nested |-> nested, import_raises |-> import_raises, classes |-> classes]

ServiceFiles ==
    {ServiceFile("test_service.py", FALSE, FALSE, << TestServiceClass >>),
     ServiceFile("csrf_service.py", FALSE, FALSE, << >>),
     ServiceFile("ya_s3_service/ya_s3_service.py", TRUE, FALSE, << YaS3ServiceClass >>),
     \* ml_service.py has `from ...ya_s3_service import YaS3Service`
     ServiceFile("ml_service/ml_service.py", TRUE, FALSE, << MLServiceClass, YaS3ServiceClass >>),
     ServiceFile("ml_light_service.py", FALSE, FALSE, << MlServiceClass >>),
     ServiceFile("legacy_service.py", FALSE, FALSE, << BrokenInitClass, DisabledClass >>),
     ServiceFile("draft_service.py", FALSE, FALSE,
                 << BrokenConfigClass, UnsetClass, MissingConfigClass >>),
     ServiceFile("broken_service.py", FALSE, TRUE, << TestServiceClass >>)}

\* load_service_classes names the module by the path relative to
\* file_path.parents[2]: "src.services.x_service" for a file directly in the
\* services directory, but "services.pkg.x_service" for one in a
\* subdirectory, which imports only when src/ itself is on sys.path.
\* ok = FALSE is ServiceLoadError.
load_service_classes(f, has_src) ==
    IF (f.nested /\ ~has_src) \/ f.import_raises
    THEN [ok |-> FALSE, classes |-> << >>]
    ELSE [ok |-> TRUE, classes |-> f.classes]

\* BaseService.get_config as discover_services uses it
get_config(cls) ==
    [raised |-> cls.config = "raises", RPC_ENABLED |-> cls.config = "enabled"]

\* the instance made from class cls found in file f
Instance(cls, f) == [name |-> cls.name, module |-> f.path]

\* the inner try block for one class: the instances appended to `services`
init_service(cls, f) ==
    IF ~cls.constructs \/ get_config(cls).raised THEN << >>
    ELSE IF get_config(cls).RPC_ENABLED THEN << Instance(cls, f) >>
    ELSE << >>

RECURSIVE init_services(_, _, _)
init_services(classes, f, i) ==
    IF i > Len(classes) THEN << >>
    ELSE init_service(classes[i], f) \o init_services(classes, f, i + 1)

\* discover_services starts: nothing scanned, nothing found
discover_services(has_src) ==
    /\ scanned = {} /\ file_path = ""
    /\ sys_path_has_src' = has_src
    /\ file_path' = "."
    /\ UNCHANGED <<producerVars, brokerVars, served, nCrashes, managerVars, webVars, nameVars, sseVars,
                   scanned, services, registry>>

\* one iteration of `for file_path in service_files`
scan_file(f) ==
    /\ file_path # ""
    /\ ~registry.registered
    /\ Cardinality(scanned) < MaxFiles
    /\ \A g \in scanned: g.path # f.path
    /\ scanned' = scanned \cup {f}
    /\ file_path' = f.path
    /\ services' = services \o
           init_services(load_service_classes(f, sys_path_has_src).classes, f, 1)
    /\ UNCHANGED <<producerVars, brokerVars, served, nCrashes, managerVars, webVars, nameVars, sseVars,
                   sys_path_has_src, registry>>

\* ----------------------------------- JSONRPCDispatcher._register_services
\* `self.services[method_name] = service`
register(entries, svc) == Put(entries, get_service_method_name(svc.name), svc)

RECURSIVE register_all(_, _, _)
register_all(entries, svcs, i) ==
    IF i > Len(svcs) THEN entries
    ELSE register_all(register(entries, svcs[i]), svcs, i + 1)

\* discover_services has returned; the dispatcher (and likewise
\* SSEServiceRegistry._discover_services) registers each service under its
\* method name
register_services ==
    /\ file_path # ""
    /\ ~registry.registered
    /\ registry' = [registered |-> TRUE, entries |-> register_all(<< >>, services, 1)]
    /\ UNCHANGED <<producerVars, brokerVars, served, nCrashes, managerVars, webVars, nameVars, sseVars,
                   sys_path_has_src, scanned, file_path, services>>

\* ------------------------------ execute_stream invocations, stage tracking
\* get_stage_definition, first use: the stage list comes from the service's
\* configuration file, or is the default one.  The files do not change while
\* the process runs, so the list is drawn before the first invocation.
get_stage_definition(service_stages) ==
    /\ stage_definition = NotLoaded
    /\ stage_definition' = service_stages
    /\ UNCHANGED <<tracker, start_time, invocation>>
    /\ UNCHANGED <<producerVars, brokerVars, served, nCrashes, managerVars, webVars, nameVars,
                   loaderVars, stream, sinkVars>>

\* execute_stream is entered: `self._start_tracking()` and nothing else
\* touches the instance.  `own` starts as the fields the invocation finds.
execute_stream(i) ==
    /\ stage_definition # NotLoaded
    /\ invocation[i].pc = "idle"
    /\ \A j \in 1..(i - 1): invocation[j].pc # "idle"
    /\ start_time' = i
    /\ invocation' = [invocation EXCEPT ![i] = [NoInvocation EXCEPT !.pc = "running",
                                                                    !.own = tracker]]
    /\ UNCHANGED <<stage_definition, tracker>>
    /\ UNCHANGED <<producerVars, brokerVars, served, nCrashes, managerVars, webVars, nameVars,
                   loaderVars, stream, sinkVars>>

\* stage-tracking calls made on the instance so far
RECURSIVE OpsUpTo(_)
OpsUpTo(i) == IF i = 0 THEN 0 ELSE invocation[i].ops + OpsUpTo(i - 1)

OpsMade == OpsUpTo(MaxInvocations)

\* stage messages yielded by the invocations so far
RECURSIVE EventsUpTo(_)
EventsUpTo(i) == IF i = 0 THEN 0 ELSE Len(invocation[i].events) + EventsUpTo(i - 1)

EventsYielded == EventsUpTo(MaxInvocations)

\* a stage-tracking call made by invocation i between two suspension points:
\* what it makes of the instance's fields, and what it would have made of
\* fields only this invocation writes
TrackerCall(i, shared, own) ==
    /\ invocation[i].pc = "running"
    /\ OpsMade < MaxOps
    /\ tracker' = shared
    /\ invocation' = [invocation EXCEPT ![i].ops = @ + 1, ![i].own = own]
    /\ UNCHANGED <<stage_definition, start_time>>
    /\ UNCHANGED <<producerVars, brokerVars, served, nCrashes, managerVars, webVars, nameVars,
                   loaderVars, stream, sinkVars>>

call_next_stage(i, total_substeps) ==
    TrackerCall(i, next_stage(tracker, stage_definition, total_substeps),
                next_stage(invocation[i].own, stage_definition, total_substeps))

call_set_stage(i, stage_id, total_substeps) ==
    TrackerCall(i, set_stage(tracker, stage_definition, stage_id, total_substeps),
                set_stage(invocation[i].own, stage_definition, stage_id, total_substeps))

call_increment_substep(i) ==
    TrackerCall(i, increment_substep(tracker), increment_substep(invocation[i].own))

call_set_substep(i, substep) ==
    TrackerCall(i, set_substep(tracker, substep), set_substep(invocation[i].own, substep))

\* `yield self.get_current_stage_message()`: the invocation is suspended
\* here and any other task may run before it resumes
yield_stage_message(i) ==
    /\ invocation[i].pc = "running"
    /\ EventsYielded < MaxEvents
    /\ invocation' = [invocation EXCEPT ![i].events =
                          Append(@, get_current_stage_message(tracker, stage_definition))]
    /\ UNCHANGED <<stage_definition, tracker, start_time>>
    /\ UNCHANGED <<producerVars, brokerVars, served, nCrashes, managerVars, webVars, nameVars,
                   loaderVars, stream, sinkVars>>

\* the generator ends (after its success or error message)
stream_ends(i) ==
    /\ invocation[i].pc = "running"
    /\ invocation' = [invocation EXCEPT ![i].pc = "done"]
    /\ UNCHANGED <<stage_definition, tracker, start_time>>
    /\ UNCHANGED <<producerVars, brokerVars, served, nCrashes, managerVars, webVars, nameVars,
                   loaderVars, stream, sinkVars>>

\* ------------------------------------- SSE streams of the services' messages
StreamUnchanged ==
    UNCHANGED <<producerVars, brokerVars, served, nCrashes, managerVars, webVars, nameVars,
                loaderVars, trackerVars, sinkVars>>

\* the wrapper formats the message its `async for` received and yields the event
Yield(message, at) ==
    [stream EXCEPT !.out = Append(@, format_event(message)), !.pc = at]

\* SSEServiceRegistry.execute_service_stream(service_name, params) and
\* SSEServiceExecutor.execute_service_stream(service, params) up to their
\* first suspension: an unknown name gets one error event from the registry
execute_service_stream(via, name) ==
    /\ stream.pc = "idle"
    /\ via = "executor" => name \in StreamedServices
    /\ stream' =
          IF name \in StreamedServices
          THEN [stream EXCEPT !.via = via, !.service = name, !.pc = "start"]
          ELSE [stream EXCEPT !.via = via, !.service = name, !.pc = "closed",
                              !.out = << format_event(
                                             create_error_message("initialization")) >>]
    /\ StreamUnchanged

\* a service without execute_stream of its own (TestService): execute() runs
\* and its result is yielded once; an exception of execute() reaches the
\* wrapper's `except Exception`, which yields one error event
base_execute_stream(raises) ==
    /\ stream.service = "test"
    /\ stream.pc = "start"
    /\ stream' = IF raises THEN Yield(create_error_message("execution"), "closed")
                           ELSE Yield(final_message, "exhausted")
    /\ StreamUnchanged

\* the stage_failed values of YaS3Service's error messages on an upload or a
\* download: a failed validation, the except handlers of the operation
S3StagesFailed == {"validation", "uploading", "downloading"}

\* what a YaS3Service stream may yield next: a stage message no lower than
\* its last one, its success message, or an error message
S3Messages ==
    {progress_message(p, "processing"):
        p \in {q \in S3Progress: q >= stream.last /\ stream.n < MaxSubMessages}}
    \union {create_success_message(result): result \in {"empty", "no_url"}}
    \union {create_error_message(stage_failed): stage_failed \in S3StagesFailed}

\* what _call_ml_service_sse may yield next, the remote service reporting
\* percentages that do not go down, or an event without a percentage
RemoteMessages ==
    {ml_sse_message(RemoteEvent({"status", "progress"}, "progress", p, NoResult)):
        p \in {q \in RemoteProgress: q >= stream.last /\ stream.n < MaxSubMessages}}
    \union (IF stream.n < MaxSubMessages
            THEN {ml_sse_message(RemoteEvent({"status", "stage"}, "progress", 0, NoResult))}
            ELSE {})
    \union {ml_sse_message(RemoteEvent({"status", "result"}, "success", 0, result)):
                result \in Results}
    \union {ml_sse_message(RemoteEvent({"status"}, "success", 0, NoResult)),
             ml_sse_message(RemoteEvent({"status", "error"}, "error", 0, NoResult))}

\* every message a sub-stream can yield at some point
SubMessages ==
    {progress_message(p, "processing"): p \in S3Progress}
    \union {create_success_message(result): result \in {"empty", "no_url"}}
    \union {create_error_message(stage_failed): stage_failed \in S3StagesFailed}
    \union {ml_sse_message(RemoteEvent({"status", "progress"}, "progress", p, NoResult)):
                p \in RemoteProgress}
    \union {ml_sse_message(RemoteEvent({"status", "stage"}, "progress", 0, NoResult))}
    \union {ml_sse_message(RemoteEvent({"status", "result"}, "success", 0, result)):
                result \in Results}
    \union {ml_sse_message(RemoteEvent({"status"}, "success", 0, NoResult))}

\* YaS3Service.execute_stream under the wrapper
s3_execute_stream(message) ==
    /\ stream.service = "ya_s3"
    /\ stream.pc \in {"start", "streaming"}
    /\ message \in S3Messages
    /\ stream' =
          IF message.status = "processing"
          THEN [Yield(message, "streaming") EXCEPT !.n = @ + 1, !.last = message.progress]
          ELSE Yield(message, "exhausted")
    /\ StreamUnchanged

\* MLService.execute_stream up to its first yield: a validation error, or the
\* progress message that opens the upload
ml_execute_stream(valid) ==
    /\ stream.service = "ml"
    /\ stream.pc = "start"
    /\ stream' = IF valid
                 THEN Yield(progress_message(PROGRESS_UPLOAD_START, "uploading_to_s3"),
                            "uploading_to_s3")
                 ELSE Yield(create_error_message("validation"), "exhausted")
    /\ StreamUnchanged

\* one message of the sub-stream of the current phase: an error message is
\* yielded and ends the generator, a success message leaves its result and
\* is not yielded, any other message is yielded with its progress mapped
ml_sub_message(message) ==
    /\ stream.service = "ml"
    /\ stream.pc \in Phases
    /\ ~stream.over
    /\ message \in (IF stream.pc = "ml_processing" THEN RemoteMessages ELSE S3Messages)
    /\ stream.pc = "uploading_to_s3" => message.stage_failed # "downloading"
    /\ stream.pc = "downloading_result" => message.stage_failed # "uploading"
    /\ stream' =
          IF Get(message, "status", None) = "error"
          THEN Yield(message, "exhausted")
          ELSE IF Get(message, "status", None) = "success"
          THEN [stream EXCEPT !.result = Get(message, "result", "empty"), !.over = TRUE]
          ELSE [Yield(mapped(message, stream.pc), stream.pc) EXCEPT
                    !.n = @ + 1,
                    !.last = IF message.progress > @ THEN message.progress ELSE @]
    /\ StreamUnchanged

\* MLService._current_stage_id where execute_stream's `except Exception`
\* reads it: execute_stream calls neither set_stage nor next_stage, so the
\* field is as __init__ left it
ml_current_stage_id == None

\* the sub-stream of the current phase ends, or raises: without a result an
\* error message is yielded that names the phase; an exception is caught by
\* `except Exception`, whose error message names
\* `self._current_stage_id or "unknown"`; otherwise the next phase opens, or
\* the success message is yielded after the download
ml_sub_ends(raises) ==
    /\ stream.service = "ml"
    /\ stream.pc \in Phases
    /\ LET next ==
              [stream EXCEPT !.result = NoResult, !.last = 0, !.n = 0, !.over = FALSE]
           yield(message, at) ==
              [next EXCEPT !.out = Append(@, format_event(message)), !.pc = at]
       IN stream' =
            IF raises
            THEN yield(create_error_message(IF ml_current_stage_id # None
                                            THEN ml_current_stage_id
                                            ELSE "unknown"), "exhausted")
            ELSE IF ~Truthy(stream.result)
            THEN yield(create_error_message(stream.pc), "exhausted")
            ELSE IF stream.pc = "uploading_to_s3"
            THEN yield(progress_message(PROGRESS_ML_START, "ml_processing"), "ml_processing")
            ELSE IF stream.pc = "ml_processing"
            THEN IF stream.result = "url"
                 THEN yield(progress_message(PROGRESS_DOWNLOAD_START, "downloading_result"),
                            "downloading_result")
                 ELSE yield(create_error_message("ml_processing"), "exhausted")
            ELSE yield(create_success_message("url"), "exhausted")
    /\ StreamUnchanged

\* SSEServiceExecutor.execute_service_stream(service, params) for a service
\* object of any class: its generator yields one dict, which the wrapper
\* formats, and is exhausted
any_execute_stream(message) ==
    /\ stream.pc = "idle"
    /\ stream' = [Yield(message, "exhausted") EXCEPT !.via = "executor", !.service = "any"]
    /\ StreamUnchanged

\* the service's generator is exhausted: the wrapper's loop ends and so
\* does the stream
stream_closes ==
    /\ stream.pc = "exhausted"
    /\ stream' = [stream EXCEPT !.pc = "closed"]
    /\ StreamUnchanged

\* ------------------------------------------------ SSEService, its connections
SinkUnchanged ==
    UNCHANGED <<producerVars, brokerVars, served, nCrashes, managerVars, webVars, nameVars,
                loaderVars, trackerVars, stream>>

\* GET /events/stream: create_connection, then create_stream_response, which
\* does not suspend; a connection already held under the id is dropped and
\* its close() scheduled
create_connection(client_id) ==
    /\ \E c \in Connections:
          /\ sse_conn[c] = NoConnection
          /\ \A d \in 1..(c - 1): sse_conn[d] # NoConnection
          /\ LET removed == remove_connection(connections, close_tasks, client_id)
             IN /\ connections' = [removed.connections EXCEPT ![client_id] = c]
                /\ close_tasks' = removed.close_tasks
          /\ sse_conn' = [sse_conn EXCEPT ![c] = SSEConnection(client_id)]
    /\ UNCHANGED <<client_mapping, sends>>
    /\ SinkUnchanged

\* SSEConnection.close(), run as a task
connection_close(c) ==
    /\ c \in close_tasks
    /\ close_tasks' = close_tasks \ {c}
    /\ sse_conn' = [sse_conn EXCEPT ![c].is_active = FALSE,
                                    ![c].queue = Append(@, CloseSignal)]
    /\ UNCHANGED <<connections, client_mapping, sends>>
    /\ SinkUnchanged

\* event_stream is started: the connection confirmation is yielded
stream_connected(c) ==
    /\ sse_conn[c].pc = "created"
    /\ sse_conn' = [sse_conn EXCEPT ![c].out = Append(@, Connected), ![c].pc = "loop"]
    /\ UNCHANGED <<connections, client_mapping, close_tasks, sends>>
    /\ SinkUnchanged

\* `while connection.is_active:`, then wait_for suspends the generator;
\* `finally: connection.is_active = False` when the loop is left
loop_check(c) ==
    /\ sse_conn[c].pc = "loop"
    /\ sse_conn' = [sse_conn EXCEPT
                       ![c].pc = IF sse_conn[c].is_active THEN "waiting" ELSE "ended"]
    /\ UNCHANGED <<connections, client_mapping, close_tasks, sends>>
    /\ SinkUnchanged

\* queue.get() returns: the close signal breaks the loop, a message is yielded
queue_get(c) ==
    /\ sse_conn[c].pc = "waiting"
    /\ sse_conn[c].queue # << >>
    /\ LET message == Head(sse_conn[c].queue)
       IN sse_conn' =
            IF message = CloseSignal
            THEN [sse_conn EXCEPT ![c].queue = Tail(@), ![c].pc = "ended",
                                  ![c].is_active = FALSE]
            ELSE [sse_conn EXCEPT ![c].queue = Tail(@), ![c].pc = "loop",
                                  ![c].out = Append(@, message)]
    /\ UNCHANGED <<connections, client_mapping, close_tasks, sends>>
    /\ SinkUnchanged

\* a timeout handler that leaves the loop after its heartbeat
timeout_ends_stream(c) ==
    /\ sse_conn[c].pc = "waiting"
    /\ Heartbeats(sse_conn[c].out) < MaxHeartbeats
    /\ sse_conn' = [sse_conn EXCEPT ![c].out = Append(@, Heartbeat), ![c].pc = "ended",
                                    ![c].is_active = FALSE]
    /\ UNCHANGED <<connections, client_mapping, close_tasks, sends>>
    /\ SinkUnchanged

\* asyncio.TimeoutError after 120 seconds: a heartbeat is yielded.  The
\* cancelled queue.get() takes nothing from the queue, also when a message
\* arrives as the timeout fires.
stream_timeout(c) ==
    /\ sse_conn[c].pc = "waiting"
    /\ Heartbeats(sse_conn[c].out) < MaxHeartbeats
    /\ sse_conn' = [sse_conn EXCEPT ![c].out = Append(@, Heartbeat), ![c].pc = "loop"]
    /\ UNCHANGED <<connections, client_mapping, close_tasks, sends>>
    /\ SinkUnchanged

\* the client goes away: the generator is cancelled where it is suspended
\* and its `finally` runs
client_disconnects(c) ==
    /\ sse_conn[c].pc \in {"loop", "waiting"}
    /\ sse_conn' = [sse_conn EXCEPT ![c].pc = "ended", ![c].is_active = FALSE]
    /\ UNCHANGED <<connections, client_mapping, close_tasks, sends>>
    /\ SinkUnchanged

\* send_to_client(client_id, event_type, data)
send_to_client(client_id) ==
    /\ Len(sends) < MaxSends
    /\ LET target_client_id == get_mapped_client_id(client_mapping, client_id)
           c == connections[target_client_id]
           made(ok) == [client_id |-> client_id, returned |-> ok]
       IN IF c = 0
          THEN /\ sends' = Append(sends, made(FALSE))
               /\ UNCHANGED <<connections, sse_conn, close_tasks>>
          ELSE IF ~sse_conn[c].is_active
          THEN LET removed == remove_connection(connections, close_tasks, target_client_id)
               IN /\ connections' = removed.connections
                  /\ close_tasks' = removed.close_tasks
                  /\ sends' = Append(sends, made(FALSE))
                  /\ UNCHANGED sse_conn
          ELSE /\ sse_conn' = [sse_conn EXCEPT
                                  ![c].queue = Append(@, QueuedMessage(Len(sends) + 1))]
               /\ sends' = Append(sends, made(TRUE))
               /\ UNCHANGED <<connections, close_tasks>>
    /\ UNCHANGED client_mapping
    /\ SinkUnchanged

\* broadcast(event_type, data): every active connection held gets the
\* message, every inactive one is removed
broadcast ==
    /\ Len(sends) < MaxSends
    /\ LET held == {id \in ClientIds: connections[id] # 0}
           active == {id \in held: sse_conn[connections[id]].is_active}
       IN /\ sse_conn' =
                [c \in Connections |->
                    IF \E id \in active: connections[id] = c
                    THEN [sse_conn[c] EXCEPT !.queue = Append(@, QueuedMessage(Len(sends) + 1))]
                    ELSE sse_conn[c]]
          /\ connections' = [id \in ClientIds |-> IF id \in active THEN connections[id] ELSE 0]
          /\ close_tasks' = close_tasks \union {connections[id]: id \in held \ active}
    /\ sends' = Append(sends, [client_id |-> None, returned |-> TRUE])
    /\ UNCHANGED client_mapping
    /\ SinkUnchanged

map_client_id(secondary_id, primary_id) ==
    /\ client_mapping[secondary_id] # primary_id
    /\ client_mapping' = [client_mapping EXCEPT ![secondary_id] = primary_id]
    /\ UNCHANGED <<connections, sse_conn, close_tasks, sends>>
    /\ SinkUnchanged

unmap_client_id(secondary_id) ==
    /\ client_mapping[secondary_id] # None
    /\ client_mapping' = [client_mapping EXCEPT ![secondary_id] = None]
    /\ UNCHANGED <<connections, sse_conn, close_tasks, sends>>
    /\ SinkUnchanged

\* ------------------------------------------------------------------ Next
\* the producer and the tasks that call it
CallerNext ==
    \/ connect
    \/ close
    \/ \E c \in Callers, rq \in Calls: call(c, rq)
    \/ \E c \in Callers: acquire_lock(c)
    \/ \E c \in Callers, ok \in BOOLEAN: publish_request(c, ok)
    \/ \E c \in Callers: timer_fires(c)
    \/ \E c \in Callers: wait_for_resume(c)
    \/ \E c \in Callers: timeout_raise(c)

\* replies other publishers send to the callback queue
RepliesNext ==
    \E m \in IncomingReplies: reply_arrives(m)

\* the worker process, the work queue and the replies the worker sends
WorkerNext ==
    \/ start_consuming
    \/ \E ok \in BOOLEAN: on_message(ok)
    \/ process_exit
    \/ \E m \in ForeignRequests: foreign_publish(m)
    \/ deliver_reply

\* the worker process failing
CrashNext == consumer_crash

\* the producer's connection dropping and being re-established
ManagerNext ==
    \/ connection_lost
    \/ \E ok \in BOOLEAN: reconnect(ok)

\* tasks getting connections and channels from one manager and closing it
ChannelNext ==
    \/ \E t \in ManagerTasks, op \in Operations \ {"reconnect"}: manager_call(t, op)
    \/ \E t \in ManagerTasks, ok \in BOOLEAN: connect_robust(t, ok)
    \/ \E t \in ManagerTasks: channel_opened(t)

\* one task reconnecting, and closing the connection it got
BackoffNext ==
    \/ \E op \in {"reconnect", "close"}: manager_call(1, op)
    \/ sleep_ends(1)
    \/ \E ok \in BOOLEAN: connect_robust(1, ok)

\* tasks reconnecting, the broker refusing or accepting
ReconnectNext ==
    \/ \E t \in ManagerTasks: manager_call(t, "reconnect")
    \/ \E t \in ManagerTasks: sleep_ends(t)
    \/ \E t \in ManagerTasks, ok \in BOOLEAN: connect_robust(t, ok)

\* upload requests of one session
UploadNext ==
    \/ \E r \in Uploads: upload_file_stream(r)
    \/ \E r \in Uploads, ok \in BOOLEAN: save_uploaded_file(r, ok)
    \/ \E r \in Uploads, event \in {"progress", "complete", "error"}: service_event(r, event)
    \/ \E r \in Uploads: resume_after_yield(r)
    \/ \E r \in Uploads: stream_exhausted(r)
    \/ \E r \in Uploads: error_yield_left(r)
    \/ \E r \in Uploads: client_gone(r)
    \/ \E r \in Uploads: upload_file(r)
    \/ \E r \in Uploads, ok \in BOOLEAN: upload_file_returns(r, ok)

\* method names being derived
NameNext == \E n \in ClassNames: name_service(n)

\* service discovery and registration at start-up
LoaderNext ==
    \/ \E has_src \in BOOLEAN: discover_services(has_src)
    \/ \E f \in ServiceFiles: scan_file(f)
    \/ register_services

\* the stage list of the shared service instance being loaded
StagesNext ==
    \E service_stages \in StageLists \union {DefaultStages}:
        get_stage_definition(service_stages)

\* invocation i advancing automatically: next_stage and increment_substep
AutoNext(i) ==
    \/ execute_stream(i)
    \/ \E n \in 0..MaxSubsteps: call_next_stage(i, n)
    \/ call_increment_substep(i)
    \/ yield_stage_message(i)
    \/ stream_ends(i)

\* invocation i setting stages and substeps by hand
ManualNext(i) ==
    \/ \E id \in StageIdsOf(stage_definition) \union {UnknownStage},
          n \in {0, MaxSubsteps}: call_set_stage(i, id, n)
    \/ \E n \in 0..MaxSubsteps: call_set_substep(i, n)

\* one invocation making next_stage and increment_substep calls back to back,
\* with no yield in between; the totals reach past MaxSubsteps so that a
\* substep need not divide the distance to the next stage
ProgressNext ==
    \/ execute_stream(1)
    \/ \E n \in 0..(MaxSubsteps + 1): call_next_stage(1, n)
    \/ call_increment_substep(1)

\* one invocation making every stage-tracking call, set_substep with any
\* integer from below 0 to above the largest total
ClampNext ==
    \/ execute_stream(1)
    \/ \E n \in 0..MaxSubsteps: call_next_stage(1, n)
    \/ \E id \in StageIds \union {INITIALIZING, COMPLETE, UnknownStage},
          n \in 0..MaxSubsteps: call_set_stage(1, id, n)
    \/ call_increment_substep(1)
    \/ \E n \in (-1)..(MaxSubsteps + 1): call_set_substep(1, n)

\* a stage list of any shape being loaded
ValidationNext ==
    \E service_stages \in ValidatedLists: get_stage_definition(service_stages)

\* a stream of one message of any shape
ClassifyNext ==
    \/ \E message \in Shapes: any_execute_stream(message)
    \/ stream_closes

\* the SSE sink: clients connecting and leaving, messages sends to them
SinkNext ==
    \/ \E id \in ClientIds: create_connection(id)
    \/ \E c \in Connections:
          \/ connection_close(c)
          \/ stream_connected(c)
          \/ loop_check(c)
          \/ queue_get(c)
          \/ stream_timeout(c)
          \/ client_disconnects(c)
    \/ \E id \in ClientIds: send_to_client(id)
    \/ broadcast
    \/ \E secondary_id, primary_id \in ClientIds: map_client_id(secondary_id, primary_id)
    \/ \E secondary_id \in ClientIds: unmap_client_id(secondary_id)

\* messages sent to a client that connects, reconnects and leaves, and whose
\* event streams run; no id mapping
DeliveryNext ==
    \/ create_connection("session")
    \/ \E c \in Connections:
          \/ connection_close(c)
          \/ stream_connected(c)
          \/ loop_check(c)
          \/ queue_get(c)
          \/ stream_timeout(c)
          \/ client_disconnects(c)
    \/ send_to_client("session")

\* messages sent to a client who stays while its connections are replaced
\* and closed
DrainNext ==
    \/ create_connection("session")
    \/ \E c \in Connections:
          \/ connection_close(c)
          \/ stream_connected(c)
          \/ loop_check(c)
          \/ queue_get(c)
          \/ stream_timeout(c)
    \/ send_to_client("session")

\* messages sent and broadcast to clients that connect and leave, ids mapped
\* and unmapped; nothing is read from the queues
ResolutionNext ==
    \/ \E id \in ClientIds: create_connection(id)
    \/ \E c \in Connections:
          \/ connection_close(c)
          \/ stream_connected(c)
          \/ client_disconnects(c)
    \/ \E id \in ClientIds: send_to_client(id)
    \/ broadcast
    \/ \E secondary_id, primary_id \in ClientIds: map_client_id(secondary_id, primary_id)
    \/ \E secondary_id \in ClientIds: unmap_client_id(secondary_id)

\* execute_stream invocations on the shared instance, interleaved at their
\* yields; the repository ships no stage configuration file, so the stage
\* list is the default one
TrackerNext ==
    \/ get_stage_definition(DefaultStages)
    \/ \E i \in Invocations: AutoNext(i) \/ ManualNext(i)

\* one SSE stream of a service's messages
StreamNext ==
    \/ \E via \in {"registry", "executor"},
          name \in StreamedServices \union {MissingService}:
            execute_service_stream(via, name)
    \/ \E raises \in BOOLEAN: base_execute_stream(raises)
    \/ \E message \in SubMessages: s3_execute_stream(message)
    \/ \E valid \in BOOLEAN: ml_execute_stream(valid)
    \/ \E message \in SubMessages: ml_sub_message(message)
    \/ \E raises \in BOOLEAN: ml_sub_ends(raises)
    \/ stream_closes

Next ==
    CallerNext \/ RepliesNext \/ WorkerNext \/ CrashNext \/ ManagerNext \/ ChannelNext
        \/ BackoffNext \/ ReconnectNext \/ UploadNext
        \/ NameNext
        \/ LoaderNext \/ StagesNext \/ ValidationNext \/ TrackerNext \/ ProgressNext
        \/ ClampNext \/ StreamNext \/ ClassifyNext \/ SinkNext

Spec == Init /\ [][Next]_vars

\* the producer against arbitrary reply traffic, no worker running
ProducerSpec == Init /\ [][CallerNext \/ RepliesNext]_vars

\* the producer against this repository's worker, no other reply traffic
WorkerSpec == Init /\ [][CallerNext \/ WorkerNext]_vars

\* the worker alone, fed by other publishers, with a reply queue to answer to
ConsumerSpec == Init /\ [][connect \/ close \/ WorkerNext \/ CrashNext]_vars

\* the producer over a connection that can drop and be re-established
TransportSpec == Init /\ [][CallerNext \/ ManagerNext]_vars

\* get_service_method_name over class names
NameSpec == Init /\ [][NameNext]_vars

\* discovery and registration of services
LoaderSpec == Init /\ [][LoaderNext]_vars

\* invocations sharing one service instance
TrackerSpec == Init /\ [][TrackerNext]_vars

\* SSE streams of the registered services
StreamSpec == Init /\ [][StreamNext]_vars

\* one invocation on a fresh instance that advances with next_stage and
\* increment_substep only
SequenceSpec == Init /\ [][StagesNext \/ AutoNext(1)]_vars

\* next_stage and increment_substep calls of one invocation, with no yields
ProgressSpec == Init /\ [][StagesNext \/ ProgressNext]_vars

\* every stage-tracking call, made by one invocation
ClampSpec == Init /\ [][StagesNext \/ ClampNext]_vars

\* the stage lists validate_stage_sequence may be given
ValidationSpec == Init /\ [][ValidationNext]_vars

\* the classification of messages of every shape
ClassifySpec == Init /\ [][ClassifyNext]_vars

\* the SSE sink
SinkSpec == Init /\ [][SinkNext]_vars

\* event streams delivering what is sent to their connections
DeliverySpec == Init /\ [][DeliveryNext]_vars

\* event streams whose connections are closed by the service, the client
\* staying connected
DrainSpec == Init /\ [][DrainNext]_vars

\* which connection a message sent to a client id reaches
ResolutionSpec == Init /\ [][ResolutionNext]_vars

\* a manager whose caller reconnects after each loss of the connection
BackoffSpec == Init /\ [][BackoffNext]_vars

\* a manager whose callers reconnect concurrently; a sleep ends and the
\* broker answers a connection attempt, so a task inside reconnect() goes on
ReconnectSpec ==
    /\ Init /\ [][ReconnectNext]_vars
    /\ \A t \in ManagerTasks:
          /\ WF_vars(sleep_ends(t))
          /\ WF_vars(\E ok \in BOOLEAN: connect_robust(t, ok))

\* a manager whose callers connect and open channels concurrently
ManagerSpec == Init /\ [][ChannelNext]_vars

\* the upload endpoints called with one session cookie
UploadSpec == Init /\ [][UploadNext]_vars

TypeOK ==
    /\ channel \in BOOLEAN /\ consumer_tag \in BOOLEAN /\ listening \in BOOLEAN
    /\ locked \in BOOLEAN
    /\ DOMAIN futures \subseteq 1..MaxCalls
    /\ \A k \in DOMAIN futures:
          futures[k].state \in {"pending", "result", "exception", "cancelled"}
    /\ nextId \in 1..(MaxCalls + 1)
    /\ \A c \in Callers:
          pc[c] \in {"idle", "lock_wait", "publishing", "awaiting", "cancelling"}
    /\ nForeign \in 0..MaxForeign


\* ================================================================ claims
InCall(c) == pc[c] \in {"publishing", "awaiting", "cancelling"}
Returns(c) == pc[c] # "idle" /\ pc'[c] = "idle"
ReplyBorne(o) == o.type \in {"result", "RPCError", "ParseError"}

\* what the caller of call(rq) is to get when the worker's reply reaches it:
\* the capability's result, or an RPC error for an error reply
ExpectedOutcome(rq, cid) ==
    IF handle_request(JsonRequest(rq.method, rq.params, cid)).kind = "result"
    THEN [type |-> "result", via |-> cid]
    ELSE [type |-> "RPCError", via |-> cid]

\* C1: a call() whose request the running consumer handled before the
\* call's deadline (with the broker accepting and delivering the publishes in
\* time) ends with the worker's reply and not with a timeout: the capability's
\* result for a registered method that succeeds, an RPC error for an unknown
\* method or a capability that raises.
C1_ReplyBeforeDeadline ==
    [][\A c \in Callers:
          (Returns(c) /\ served[c]) => returned' = ExpectedOutcome(req[c], corr[c])]_vars

\* C2: a future is only ever resolved by a reply that carries the correlation
\* id it is registered under, and a call that ends with the content of a reply
\* ends with a reply carrying its own correlation id.
C2_Demultiplexing ==
    /\ [](\A k \in DOMAIN futures:
            futures[k].state \in {"result", "exception"} => futures[k].via = k)
    /\ [][\A c \in Callers:
            (Returns(c) /\ ReplyBorne(returned')) => returned'.via = corr[c]]_vars

\* C2 witness: the second call was resolved by a reply after another id had
\* been issued and retired
C2_Witness ==
    \E k \in DOMAIN futures: k = 2 /\ futures[k].state = "result" /\ futures[k].via = 2

C4_PendingLifetime ==
    /\ [](DOMAIN futures = {corr[c] : c \in {x \in Callers: InCall(x)}})
    /\ []((\A c \in Callers: ~InCall(c)) => DOMAIN futures = {})
    /\ [][\A c \in Callers:
            (pc[c] = "cancelling" /\ pc'[c] = "idle") => returned' = TimeoutOutcome]_vars

\* C4 witness: a call has timed out and the table is empty again
C4_Witness ==
    /\ returned = TimeoutOutcome
    /\ DOMAIN futures = {}
    /\ \A c \in Callers: pc[c] = "idle"

\* C5: a reply whose correlation id has no entry in the pending table leaves
\* the table as it is (and _on_response returns).
C5_OrphanDropped ==
    \A m \in IncomingReplies:
        m.corr \notin DOMAIN futures =>
            on_response(m).futures = futures /\ ~on_response(m).raised

\* C5 witness: the listener is up, call 1 has timed out and is gone, call 2 is
\* pending: a late reply to call 1 is an orphan
C5_Witness ==
    /\ listening
    /\ returned = TimeoutOutcome
    /\ DOMAIN futures = {2}
    /\ futures[2].state = "pending"

\* C6: in every state of the producer, _on_response returns without raising
\* for every reply the broker may deliver.
C6_ListenerNeverRaises ==
    listening => \A m \in IncomingReplies: ~on_response(m).raised

\* C7: a result slot that has been set keeps its value as long as it is in the
\* table, and its call returns what was set first.
C7_SingleAssignment ==
    [][\A k \in DOMAIN futures:
          futures[k].state # "pending" =>
              /\ k \in DOMAIN futures' => futures'[k] = futures[k]
              /\ \A c \in Callers:
                    (corr[c] = k /\ Returns(c)) => returned' = FutureOutcome(futures[k])]_vars

\* C7 witness: a slot set by a reply is still in the table while the listener
\* is up, so a second reply for it can arrive
C7_Witness ==
    /\ listening
    /\ \E k \in DOMAIN futures: futures[k].state \in {"result", "exception"}

\* C8: close() leaves no call pending: every future pending when close() runs
\* is resolved by it to a connection-closed error.
C8_CloseResolvesPending ==
    [][(listening /\ ~listening') =>
          \A k \in DOMAIN futures:
              futures[k].state = "pending" =>
                  /\ k \in DOMAIN futures'
                  /\ futures'[k].state = "exception"
                  /\ futures'[k].exc = "ConnectionClosed"]_vars

\* C9: for every request received with a reply_to address (the broker
\* accepting the publish), exactly one reply is published to that address and
\* it carries the request's correlation id.
C9_ExactlyOneReply ==
    (inflight.busy /\ inflight.req.reply_to # NoReplyTo /\ inflight.broker_ok) =>
        /\ Len(inflight.sent) = 1
        /\ inflight.sent[1].to = inflight.req.reply_to
        /\ inflight.sent[1].corr = inflight.req.corr

\* requests whose dispatch fails: not JSON, an unknown method, a capability
\* that raises
DispatchFails(body) ==
    body.fmt # "binary" /\ handle_request(body).kind = "error"

\* C10: a request whose dispatch fails is answered with a structured
\* JSON-RPC error reply (an error object, no result).
C10_DispatchErrorReply ==
    (/\ inflight.busy
     /\ inflight.req.reply_to # NoReplyTo
     /\ inflight.broker_ok
     /\ DispatchFails(inflight.req.body)) =>
        /\ Len(inflight.sent) = 1
        /\ inflight.sent[1].body.kind = "error"
        /\ inflight.sent[1].body = handle_request(inflight.req.body)

\* a step in which the consumer acknowledges the message it has in process
Acks == inflight.busy /\ ~inflight'.busy /\ consuming'

\* C11: the only step that takes a request away from the broker is the
\* acknowledgement, and it comes after the reply for that request has been
\* attempted; in every other step, a crash of the worker included, each
\* request delivered but not acknowledged stays with the broker for redelivery.
C11_AckAfterReplyAttempt ==
    [][IF Acks
       THEN /\ Outstanding = << inflight.req >> \o Outstanding'
            /\ inflight.sent = on_message_body(inflight.req, inflight.broker_ok)
       ELSE /\ Len(Outstanding') >= Len(Outstanding)
            /\ SubSeq(Outstanding', 1, Len(Outstanding)) = Outstanding]_vars

\* C11 witness: the worker replied to a request and died before acknowledging
\* it: the request is back on the work queue while its reply is on the
\* callback queue
C11_Witness ==
    /\ ~consuming
    /\ rpcQueue # << >>
    /\ \E i \in 1..Len(replyQueue): replyQueue[i].corr = rpcQueue[1].corr

\* C12: a call() that ends with a transport error (its publish failed) ends
\* so only when the ConnectionManager's reconnect attempts are used up.
C12_SurfacedAfterRetries ==
    [][\A c \in Callers:
          (Returns(c) /\ returned' = PublishFailedOutcome) =>
              reconnect_attempts' >= RABBITMQ_MAX_RECONNECT_ATTEMPTS]_vars

\* the text of a method name
TestExecute == <<"t", "e", "s", "t">> \o ExecuteSuffix
TranslateExecute == <<"t", "r", "a", "n", "s", "l", "a", "t", "e">> \o ExecuteSuffix
SpeechExecute == <<"s", "p", "e", "e", "c", "h">> \o ExecuteSuffix
VideoProcessingExecute ==
    <<"v", "i", "d", "e", "o", "_", "p", "r", "o", "c", "e", "s", "s", "i", "n", "g">>
        \o ExecuteSuffix
MlExecute == <<"m", "l">> \o ExecuteSuffix

\* C14: the method name of a class named n ends in ".execute", has no upper
\* case letter, is the same with one more "Service" appended to a name that
\* does not end in it, loses only one "Service" when the name ends in two,
\* and is the documented one for the five documented names.
C14_MethodNameDerivation ==
    service_name # << >> =>
        /\ endswith(method_name, ExecuteSuffix)
        /\ \A i \in 1..Len(method_name): ~IsUpper(method_name[i])
        /\ ~endswith(service_name, ServiceSuffix) =>
              get_service_method_name(service_name \o ServiceSuffix) = method_name
        /\ endswith(service_name, ServiceSuffix \o ServiceSuffix) =>
              endswith(method_name, <<"s", "e", "r", "v", "i", "c", "e">> \o ExecuteSuffix)
        /\ service_name = TestServiceName => method_name = TestExecute
        /\ service_name = TranslateServiceName => method_name = TranslateExecute
        /\ service_name = SpeechServiceName => method_name = SpeechExecute
        /\ service_name = VideoProcessingServiceName => method_name = VideoProcessingExecute
        /\ service_name = MLServiceName => method_name = MlExecute

\* C14 witness: the method name of VideoProcessingService has been derived
C14_Witness ==
    service_name = VideoProcessingServiceName /\ method_name = VideoProcessingExecute

\* the classes of a module whose configuration has RPC_ENABLED true and whose
\* construction and configuration loading succeed
Enabled(cls) == cls.constructs /\ cls.config = "enabled"
EnabledIn(f) ==
    IF f.import_raises THEN << >>
    ELSE [i \in 1..Len(SelectSeq(f.classes, Enabled)) |->
             Instance(SelectSeq(f.classes, Enabled)[i], f)]

\* C13: going through a service file adds to the result exactly the
\* capabilities of that file that are enabled (RPC_ENABLED true, construction
\* and configuration loading succeeding), whatever was met before.
C13_DiscoveryGating ==
    [][scanned' # scanned =>
          \E f \in scanned' \ scanned: services' = services \o EnabledIn(f)]_vars

\* C15: once the services are registered, the registry has one entry per
\* discovered service and each service is the one registered under its name.
C15_MethodNamesUnique ==
    registry.registered =>
        /\ Cardinality(DOMAIN registry.entries) = Len(services)
        /\ \A i \in 1..Len(services):
              registry.entries[get_service_method_name(services[i].name)] = services[i]

\* C16: the stage message an invocation yields is the one its own
\* next_stage / set_stage / substep calls since it began lead to, whatever
\* other invocations on the same instance did between its suspension points.
C16_InvocationIsolation ==
    [][\A i \in Invocations:
          Len(invocation'[i].events) > Len(invocation[i].events) =>
              invocation'[i].events[Len(invocation'[i].events)] =
                  get_current_stage_message(invocation[i].own, stage_definition)]_vars
\* C17: an invocation that begins while no other is running finds the
\* instance with no current stage and zero substep counters, as a fresh
\* instance has them, whatever earlier invocations did.
C17_InvocationStartsNotStarted ==
    [][\A i \in Invocations:
          (/\ invocation[i].pc = "idle" /\ invocation'[i].pc = "running"
           /\ \A j \in Invocations \ {i}: invocation[j].pc # "running")
              => tracker' = NotStarted]_vars
\* C20: with a stage list that validate_stage_sequence accepts, no next_stage
\* or increment_substep call of an invocation, whatever its total_substeps
\* argument, lowers get_current_progress().
C20_ProgressNeverDecreases ==
    [][(stage_definition # NotLoaded /\ validate_stage_sequence(stage_definition)) =>
          get_current_progress(tracker', stage_definition')
              >= get_current_progress(tracker, stage_definition)]_vars

\* the invocation stands half-way through the substeps of a stage declared
\* at 10 percent and followed by one at 50 percent
C20_Witness ==
    /\ stage_definition # NotLoaded
    /\ validate_stage_sequence(stage_definition)
    /\ invocation[1].ops = 3
    /\ tracker.current_stage_index = 1
    /\ tracker.current_substep = 1
    /\ tracker.current_total_substeps = 2
    /\ get_current_progress(tracker, stage_definition) = 30
\* an SSE event that ends a stream
Terminal(sse_event) == sse_event.event \in {"complete", "error"}

\* C18: the events of a stream are progress events followed by exactly one
\* terminal event (complete or error): no event follows a terminal event,
\* and a stream that has ended has yielded its terminal event.
C18_OneTerminalEventLast ==
    /\ \A k \in 1..(Len(stream.out) - 1): ~Terminal(stream.out[k])
    /\ stream.pc = "closed" =>
          /\ stream.out # << >>
          /\ Terminal(stream.out[Len(stream.out)])

\* C19: no event of a stream reports a lower progress than an earlier event
\* of the stream, the -1 of error messages aside.
C19_ProgressNonDecreasing ==
    \A k \in 1..Len(stream.out): \A l \in (k + 1)..Len(stream.out):
        (/\ "progress" \in stream.out[k].data.keys /\ stream.out[k].data.progress # -1
         /\ "progress" \in stream.out[l].data.keys /\ stream.out[l].data.progress # -1)
            => stream.out[k].data.progress <= stream.out[l].data.progress
\* C21: next_stage(total_substeps), called on any state an invocation can
\* reach, enters the stage that follows the current one in get_all_stages with
\* a substep counter of 0 and the given total; called first in an invocation
\* it enters the first stage the service declares, not `initializing`; called
\* at the last stage it changes nothing.
C21_NextStageContract ==
    (stage_definition # NotLoaded /\ invocation[1].pc = "running") =>
        \A total_substeps \in 0..MaxSubsteps:
            LET stages == get_all_stages(stage_definition)
                index == tracker.current_stage_index
                after == next_stage(tracker, stage_definition, total_substeps)
                entered(id) ==
                    /\ after.current_stage_id = id
                    /\ after.current_substep = 0
                    /\ after.current_total_substeps = total_substeps
            IN IF index = -1
               THEN entered(stage_definition[1].id)
               ELSE IF index = Len(stages) - 1
                    THEN after = tracker
                    ELSE /\ after.current_stage_index = index + 1
                         /\ entered(stages[index + 2].id)
\* the stage the tracker stands at, by position in get_all_stages
CurrentStage == get_all_stages(stage_definition)[tracker.current_stage_index + 1]

\* substeps are active and a stage follows the current one
Interpolating ==
    /\ tracker.current_total_substeps > 0
    /\ tracker.current_substep > 0
    /\ tracker.current_stage_index + 1 < Len(get_all_stages(stage_definition))

\* total_substeps * (base + (substep / total_substeps) * (next - base))
ScaledInterpolation ==
    LET stages == get_all_stages(stage_definition)
        next == stages[tracker.current_stage_index + 2].progress
    IN tracker.current_total_substeps * CurrentStage.progress
           + tracker.current_substep * (next - CurrentStage.progress)

\* the stage list is one validate_stage_sequence accepts and a stage is entered
Tracking ==
    /\ stage_definition # NotLoaded
    /\ validate_stage_sequence(stage_definition)
    /\ tracker.current_stage_index >= 0

\* Scenario C: stages a at 10 and b at 50, next_stage(total_substeps = 4) has
\* entered a, increment_substep() was called twice
ScenarioC ==
    LET stages == << ServiceStage("processing", 10), ServiceStage("uploading", 50) >>
        at_a == next_stage(next_stage(NotStarted, stages, 0), stages, 4)
    IN get_current_progress(increment_substep(increment_substep(at_a)), stages)

C23_SubstepClamped ==
    /\ 0 <= tracker.current_substep
    /\ tracker.current_substep <= tracker.current_total_substeps
\* the percentages of the declared stages rise strictly
DeclaredIncreasing(service_stages) ==
    \A i, j \in DOMAIN service_stages:
        i < j => service_stages[i].progress < service_stages[j].progress

\* no two stages of the full list have the same id
FullListUnique(service_stages) ==
    /\ \A i, j \in DOMAIN service_stages:
          i # j => service_stages[i].id # service_stages[j].id
    /\ \A i \in DOMAIN service_stages: service_stages[i].id \notin {INITIALIZING, COMPLETE}

\* C24: a stage list that validate_stage_sequence accepts has strictly
\* increasing percentages over its declared stages and no id twice in the full
\* list (initializing, the declared stages, complete); a list with a decrease,
\* two equal neighbouring percentages or a repeated id is turned down.
C24_AcceptedListsAreOrdered ==
    (stage_definition # NotLoaded /\ validate_stage_sequence(stage_definition)) =>
        /\ DeclaredIncreasing(stage_definition)
        /\ FullListUnique(stage_definition)

\* an accepted list of two stages, the second at the percentage of `complete`
C24_Witness ==
    /\ stage_definition # NotLoaded
    /\ Len(stage_definition) = 2
    /\ stage_definition[2].progress = 100
    /\ validate_stage_sequence(stage_definition)
\* C25: a service whose stage list fails validate_stage_sequence does not
\* start: no invocation runs, and none has yielded a stage message, with a
\* stage list that validation turns down.
C25_InvalidStagesNeverRun ==
    \A i \in Invocations:
        (invocation[i].pc # "idle" \/ invocation[i].events # << >>) =>
            validate_stage_sequence(stage_definition)
\* C26: the full stage list of a service is `initializing` at 0, then the
\* stages the service declares, in their order, then `complete` at 100; the
\* stages an invocation passes through with next_stage are those, by position.
C26_AllStagesShape ==
    stage_definition # NotLoaded =>
        LET stages == get_all_stages(stage_definition)
            index == tracker.current_stage_index
        IN /\ Len(stages) = Len(stage_definition) + 2
           /\ stages[1] = ServiceStage(INITIALIZING, 0)
           /\ stages[Len(stages)] = ServiceStage(COMPLETE, 100)
           /\ \A k \in DOMAIN stage_definition: stages[k + 1] = stage_definition[k]
           /\ index >= 0 =>
                 tracker.current_stage_id =
                     IF index = 0 THEN INITIALIZING
                     ELSE IF index <= Len(stage_definition) THEN stage_definition[index].id
                     ELSE COMPLETE

\* an invocation has walked a list of one declared stage to its end
C26_Witness ==
    /\ stage_definition # NotLoaded
    /\ Len(stage_definition) = 1
    /\ invocation[1].ops = 3
    /\ tracker.current_stage_index = 2
    /\ tracker.current_stage_id = COMPLETE
\* C27: the stream of a service that has only execute() (TestService) is one
\* event, it carries what execute() returned, and it is the terminal event of
\* the stream: a complete event, or an error event when execute() failed,
\* never a progress event.
C27_SynthesizedStreamIsTerminal ==
    (stream.service = "test" /\ stream.pc \in {"exhausted", "closed"}) =>
        /\ Len(stream.out) = 1
        /\ stream.out[1].data \in {final_message, create_error_message("execution")}
        /\ stream.out[1].event = (IF stream.out[1].data = final_message
                                  THEN "complete" ELSE "error")
\* the event type the payload shape calls for
Classified(message) ==
    IF "status" \in message.keys /\ message.status = "error" THEN "error"
    ELSE IF /\ "status" \in message.keys /\ message.status = "success"
            /\ "progress" \in message.keys /\ message.progress = 100
    THEN "complete"
    ELSE "progress"

\* C28: the event type of a message follows from its shape alone, wherever it
\* is derived: error for status "error" whatever else the message holds,
\* complete for status "success" with progress 100, progress for every other
\* message.
C28_ClassificationByShape ==
    \A k \in DOMAIN stream.out:
        /\ stream.out[k].event = Classified(stream.out[k].data)
        /\ auto_event_type(stream.out[k].data) = Classified(stream.out[k].data)
\* the event stream of connection c yields a heartbeat in this step
YieldsHeartbeat(c) == sse_conn'[c].out = Append(sse_conn[c].out, Heartbeat)

\* the event stream of connection c ends in this step
StreamEnds(c) == sse_conn[c].pc # "ended" /\ sse_conn'[c].pc = "ended"

\* C29: a heartbeat is no queued message and takes none from the queue, and
\* the stream goes on after it: whatever leaves the queue of a connection is
\* yielded by its stream, in queue order, also after heartbeats; the stream
\* ends without a last event, on the close signal, on a deactivated
\* connection, or when the client leaves.
C29_HeartbeatsKeepTheStream ==
    [][\A c \in Connections:
          LET before == sse_conn[c]
              after == sse_conn'[c]
          IN /\ YieldsHeartbeat(c) =>
                   /\ after.queue = before.queue
                   /\ after.is_active = before.is_active
                   /\ after.pc = "loop"
             /\ (after.out # before.out /\ ~YieldsHeartbeat(c) /\ before.pc # "created") =>
                   /\ before.queue # << >>
                   /\ Head(before.queue) \notin {Heartbeat, CloseSignal}
                   /\ after.out = Append(before.out, Head(before.queue))
                   /\ after.queue = Tail(before.queue)
             /\ (before.pc # "none" /\ Len(after.queue) < Len(before.queue)) =>
                   /\ after.queue = Tail(before.queue)
                   /\ \/ after.out = Append(before.out, Head(before.queue))
                      \/ Head(before.queue) = CloseSignal /\ StreamEnds(c)
             /\ StreamEnds(c) =>
                   /\ after.out = before.out
                   /\ \/ before.queue # << >> /\ Head(before.queue) = CloseSignal
                      \/ ~before.is_active
                      \/ after.queue = before.queue /\ ~after.is_active]_vars

\* a message sent after a heartbeat has been delivered
C29_Witness ==
    \E c \in Connections:
        /\ sse_conn[c].out = << Connected, Heartbeat, QueuedMessage(1) >>
        /\ sse_conn[c].pc = "waiting"
\* C30: a send_to_client(client_id, ...) call puts its message on the queue
\* of one connection, the active connection held under the id that client_id
\* is mapped to, or under client_id itself when it is not mapped, and returns
\* True; when no connection is held under that id, or an inactive one, it
\* returns False and no queue changes.  No other queue changes.
C30_OneSubscriber ==
    [][(Len(sends') = Len(sends) + 1 /\ sends'[Len(sends')].client_id # None) =>
          LET made == sends'[Len(sends')]
              target == IF client_mapping[made.client_id] # None
                        THEN client_mapping[made.client_id]
                        ELSE made.client_id
              c == connections[target]
          IN IF c # 0 /\ sse_conn[c].is_active
             THEN /\ made.returned
                  /\ sse_conn'[c].queue =
                         Append(sse_conn[c].queue, QueuedMessage(Len(sends')))
                  /\ \A d \in Connections \ {c}: sse_conn'[d].queue = sse_conn[d].queue
             ELSE /\ ~made.returned
                  /\ \A d \in Connections: sse_conn'[d].queue = sse_conn[d].queue]_vars

\* two clients are connected, a message sent to the mapped id of one has
\* reached the connection of the other and no other queue
C30_Witness ==
    /\ connections["session"] # 0
    /\ connections["task"] # 0
    /\ client_mapping["task"] = "session"
    /\ sends = << [client_id |-> "task", returned |-> TRUE] >>
    /\ sse_conn[connections["session"]].queue = << QueuedMessage(1) >>
    /\ sse_conn[connections["task"]].is_active
    /\ sse_conn[connections["task"]].queue = << >>
\* the last event of the stream
LastEvent(s) == s.out[Len(s.out)]

\* the MLService generator, having announced the stage it is in, yields an
\* error message
FailsInStage ==
    /\ stream.service = "ml"
    /\ stream.pc \in Phases
    /\ Len(stream'.out) = Len(stream.out) + 1
    /\ LastEvent(stream').event = "error"

\* C31: when a run fails after it has entered a stage, the error event it
\* emits has stage_failed equal to the id of the stage entered last.
C31_StageFailedIsLastStage ==
    [][FailsInStage => LastEvent(stream').data.stage_failed = stream.pc]_vars
\* the delays task t has slept in the reconnect() call it is in
Delays(t) == manager.task[t].delays

\* C32 as stated: the delay waited before each attempt of a reconnect() call
\* is longer than the delay waited before the attempt that preceded it.
C32_DelayGrows ==
    \A t \in ManagerTasks: \A k \in 1..(Len(Delays(t)) - 1):
        Delays(t)[k + 1] > Delays(t)[k]

\* C32: the delay waited before every attempt of a reconnect() call is
\* RABBITMQ_RECONNECT_DELAY, whatever the number of the attempt.
C32_ConstantDelay ==
    \A t \in ManagerTasks: \A k \in 1..Len(Delays(t)):
        Delays(t)[k] = RABBITMQ_RECONNECT_DELAY

\* a reconnect() call sleeps before its third attempt, two having failed
C32_Witness ==
    /\ manager.task[1].op = "reconnect"
    /\ manager.task[1].pc = "sleep"
    /\ Len(Delays(1)) = 3
    /\ manager.reconnect_attempts = 3
\* get_channel() of task t returns a channel with this step
ChannelGiven(t) ==
    /\ manager.task[t].pc = "channel"
    /\ manager'.task[t].returned.kind = "channel"

\* C33: a get_channel() call on a manager whose connection already has a
\* channel returns that channel.
C33_ChannelReused ==
    [][\A t \in ManagerTasks: ChannelGiven(t) =>
          \A k \in 1..Len(manager.channels):
              manager.channels[k] = manager.task[t].connection =>
                  manager'.task[t].returned.id = k]_vars
\* a call() is invoked with this step and finds the lock free
CallEntered == nextId' = nextId + 1 /\ LockIsFree

\* C34: call() on a producer that has no channel raises at once, leaving the
\* pending table as it was and the lock free; a call() made once connect()
\* has set the channel registers its id, holds the lock and goes on to
\* publish.
C34_CallRequiresConnect ==
    [][CallEntered =>
          IF ~channel
          THEN /\ returned' = NotConnectedOutcome
               /\ futures' = futures
               /\ ~locked'
               /\ waiters' = << >>
               /\ \A c \in Callers: pc'[c] = pc[c]
          ELSE \E c \in Callers:
                  /\ pc[c] = "idle" /\ pc'[c] = "publishing"
                  /\ corr'[c] = nextId
                  /\ futures' = Put(futures, nextId, PendingFuture)
                  /\ locked']_vars

\* a call() was refused for want of a connection, connect() was called, and
\* a later call() has published its request and awaits the reply
C34_Witness ==
    /\ returned = NotConnectedOutcome
    /\ channel
    /\ \E c \in Callers:
          /\ pc[c] = "awaiting"
          /\ DOMAIN futures = {corr[c]}
          /\ \E i \in 1..Len(rpcQueue): rpcQueue[i].corr = corr[c]
\* C35: while no connection of the manager has been closed, the broker has
\* accepted at most one connection from it, and every connection a call
\* returned is the one the manager holds.
C35_OneConnection ==
    manager.closed = {} =>
        /\ manager.established <= 1
        /\ \A t \in ManagerTasks:
              manager.task[t].returned.kind = "connection" =>
                  manager.task[t].returned.id = manager.connection
\* task t is inside reconnect(); its reconnect() call has raised
Reconnecting(t) == manager.task[t].op = "reconnect" /\ manager.task[t].pc # "idle"
ReconnectRaised(t) ==
    /\ manager.task[t].op = "reconnect"
    /\ manager.task[t].pc = "idle"
    /\ manager.task[t].returned = ErrorRaised

\* C36: with a limit of N > 0 attempts and the broker accepting no
\* connection, the reconnect() calls together make at most N connection
\* attempts and every reconnect() call ends by raising; the attempt counter
\* goes back to 0 only in a step in which a connect succeeds.
C36_BoundedReconnect ==
    /\ [](manager.established = 0 =>
             manager.attempted <= RABBITMQ_MAX_RECONNECT_ATTEMPTS)
    /\ [][(manager.reconnect_attempts # 0 /\ manager'.reconnect_attempts = 0) =>
             manager'.established = manager.established + 1]_vars
    /\ \A t \in ManagerTasks:
          [](manager.established = 0) => (Reconnecting(t) ~> ReconnectRaised(t))

\* the limit is used up with no connection made: the call that made the last
\* attempt has raised, and so has a call made after it
C36_Witness ==
    /\ manager.established = 0
    /\ manager.attempted = RABBITMQ_MAX_RECONNECT_ATTEMPTS
    /\ manager.reconnect_attempts = RABBITMQ_MAX_RECONNECT_ATTEMPTS
    /\ \A t \in ManagerTasks: ReconnectRaised(t)
\* ---------------------------------------------------------------- C37
\* the event generator of request r, which had set pending, ends in this step
GeneratorTerminates(r) ==
    /\ upload[r].via = "stream"
    /\ upload[r].set_pending
    /\ upload[r].pc # "done"
    /\ upload'[r].pc = "done"

\* C37: whenever the event generator of upload_file_stream ends after it set
\* pending (completion, error event, exception, client disconnect at any
\* suspension, the yield of the complete event included), pending is False
\* afterwards, and need_download is True only with file metadata saved
C37_PendingClearedAtEnd ==
    [][\A r \in Uploads:
          GeneratorTerminates(r) =>
              /\ ~session'.pending
              /\ session'.need_download => session'.last_uploaded_file # 0]_vars

\* ---------------------------------------------------------------- C38
\* the request is being processed: it passed validation and is saving or
\* handing the file to the service
Processing(u) == u.pc \in {"saving", "streaming", "yield_event", "calling"}

\* C38: at most one upload of a session is in processing at any time, and a
\* request that validation turned away leaves pending and need_download as
\* they were
C38_UploadMutualExclusion ==
    [][/\ Cardinality({r \in Uploads: Processing(upload'[r])}) <= 1
       /\ \A r \in Uploads:
             (upload'[r].rejected /\ upload'[r] # upload[r]) =>
                 /\ session'.pending = session.pending
                 /\ session'.need_download = session.need_download]_vars
\* ---------------------------------------------------------------- C39
\* the messages send_message put on a queue that are still on it
Undelivered(q) == {i \in 1..Len(q): q[i] # CloseSignal}

\* C39: every message send_message accepted is yielded by the event stream,
\* once and in send order, before the stream ends, also when close() is
\* called with messages still queued; and once the connection is inactive
\* no message is put on its queue
C39_DeliveredBeforeStreamEnds ==
    /\ [](\A c \in Connections:
            sse_conn[c].pc = "ended" => Undelivered(sse_conn[c].queue) = {})
    /\ [][\A c \in Connections:
            ~sse_conn[c].is_active =>
                Cardinality(Undelivered(sse_conn'[c].queue))
                    <= Cardinality(Undelivered(sse_conn[c].queue))]_vars
\* ---------------------------------------------------------------- C40
\* get_all_stages()[self._current_stage_index], a negative index counting
\* from the end of the list as Python's does
StageAtIndex ==
    LET stages == get_all_stages(stage_definition)
        index == tracker.current_stage_index
    IN stages[IF index < 0 THEN Len(stages) + index + 1 ELSE index + 1]

\* C40: after any sequence of set_stage and next_stage calls, set_stage with
\* an id the stage list does not hold included, whenever a current stage is
\* set the stage at the current index has the current id, and
\* get_current_progress() is in 0..100
C40_TrackerConsistent ==
    (stage_definition # NotLoaded /\ tracker.current_stage_id # None) =>
        /\ StageAtIndex.id = tracker.current_stage_id
        /\ get_current_progress(tracker, stage_definition) \in 0..100
====
